---- MODULE Spec2Model ----
(***************************************************************************)
(* Job orchestration and process supervision of the FFmpeg live encoder.   *)
(*                                                                         *)
(* The module holds several specifications over one set of variables,      *)
(* listed at its end; the main ones are:                                   *)
(*   SpecSM  - JobStateManager.transition applied to arbitrary jobs        *)
(*   Spec    - one job under concurrent start_job / stop_job /             *)
(*             reset_job_status requests, the launcher's monitor tasks     *)
(*             and the operating system's processes                        *)
(*   SpecRec - startup recovery (main.lifespan.run_recovery)               *)
(* Coroutines interleave only at their await points, so each action is the *)
(* code between two awaits.                                                *)
(***************************************************************************)
EXTENDS Integers, Sequences, FiniteSets, TLC

(***************************************************************************)
(* Values                                                                  *)
(***************************************************************************)
PENDING == "pending"
RUNNING == "running"
STOPPED == "stopped"
ERROR == "error"
COMPLETED == "completed"

JobStatus == {PENDING, RUNNING, STOPPED, ERROR, COMPLETED}

\* Python None for the optional fields of EncodingJob
NoPid == -1
NoTime == 0
NoMsg == "None"

\* bounds of the state-machine specification
MaxClock == 3
MaxPid == 2

PidArgs == {NoPid} \cup (0..MaxPid)
MsgArgs == {NoMsg, "", "boom"}

\* Python truthiness of an Optional[int] / Optional[str]
TruthyPid(p) == p # NoPid /\ p # 0
TruthyMsg(m) == m # NoMsg /\ m # ""

(***************************************************************************)
(* Job state machine (services/job_state.py)                               *)
(***************************************************************************)
VALID_TRANSITIONS ==
    [s \in JobStatus |->
        CASE s = PENDING -> {RUNNING, ERROR}
          [] s = RUNNING -> {STOPPED, ERROR, COMPLETED}
          [] s = STOPPED -> {PENDING, RUNNING, ERROR}
          [] s = ERROR -> {PENDING, RUNNING}
          [] s = COMPLETED -> {PENDING, RUNNING}]

\* is_valid_transition without the self-transition branch of line 120
is_valid_transition_noself(current_status, target_status) ==
    target_status \in VALID_TRANSITIONS[current_status]

is_valid_transition(current_status, target_status) ==
    \/ current_status = target_status
    \/ target_status \in VALID_TRANSITIONS[current_status]

\* the five fields of EncodingJob that transition reads and writes
JobRec(st, sa, so, p, em) ==
    [status |-> st, started_at |-> sa, stopped_at |-> so, pid |-> p,
     error_message |-> em]

\* the field updates of transition (lines 69-98), timestamp = utcnow()
ApplyTransition(job, new_status, error_message, pid, timestamp) ==
    CASE new_status = RUNNING ->
            [job EXCEPT !.status = RUNNING,
                        !.started_at = timestamp,
                        !.stopped_at = NoTime,
                        !.error_message = NoMsg,
                        !.pid = IF TruthyPid(pid) THEN pid ELSE job.pid]
      [] new_status = STOPPED ->
            [job EXCEPT !.status = STOPPED,
                        !.stopped_at = timestamp,
                        !.pid = NoPid]
      [] new_status = ERROR ->
            [job EXCEPT !.status = ERROR,
                        !.stopped_at = timestamp,
                        !.pid = NoPid,
                        !.error_message = IF TruthyMsg(error_message)
                                          THEN error_message
                                          ELSE "Unknown error"]
      [] new_status = COMPLETED ->
            [job EXCEPT !.status = COMPLETED,
                        !.stopped_at = timestamp,
                        !.pid = NoPid,
                        !.error_message = NoMsg]
      [] new_status = PENDING ->
            [job EXCEPT !.status = PENDING,
                        !.started_at = NoTime,
                        !.stopped_at = NoTime,
                        !.pid = NoPid,
                        !.error_message = NoMsg]

VARIABLES
    \* ---- SpecSM: JobStateManager.transition on arbitrary jobs
    smJob,      \* the in-memory EncodingJob handed to transition
    smDb,       \* the row of encoding_jobs for that job
    smCall,     \* the last call of transition and how it ended
    smClock,    \* datetime.utcnow()
    \* ---- Spec: one job, its requests, its monitor tasks and its processes
    db,         \* the job's row of encoding_jobs
    dbExists,   \* FALSE once the row was deleted (auto-archive on completion)
    cmdHasId,   \* the job's command line contains the job id
    proc,       \* per launch: the spawned process ("none", "alive", "exit0", "exit1")
    kids,       \* per launch: some descendant of the process is alive
    pipeKids,   \* per launch: a live descendant holds the stdout/stderr pipes
    stdinClosed,\* per launch: process.stdin.is_closing()
    active,     \* active_processes[job_id]: the launch whose process it holds, 0 = no entry
    stats,      \* job_stats[job_id]: likewise
    pcS,        \* per launch: position of the start_job request
    jobS,       \* per launch: the EncodingJob of start_job, shared with its callbacks
    pcM,        \* per launch: position of _monitor_process
    cbComplete, \* per launch: calls of on_complete made by the launcher
    cbError,    \* per launch: calls of on_error that reached the callback
    pcT,        \* position of the stop_job request
    jobT,       \* the EncodingJob of stop_job
    targetT,    \* the launch whose process stop_encoding took from active_processes
    stopCall,   \* what the last stop_encoding call returned, and what it left alive
    startCall,  \* per launch: what start_encoding returned, and the entries it left
    pcR,        \* position of the reset_job_status request
    pcK,        \* position of the force_kill_job request
    jobK,       \* the EncodingJob of force_kill_job
    killCall,   \* what its _force_kill_by_job_id call returned, and what it left alive
    pcQ,        \* per stop_encoding call of SpecStops: its position and the handle it took
    sigLog,     \* what those calls did to the process tree, in order
    \* ---- SpecRec: startup recovery over the jobs of the table
    rdb,        \* per job: its row of encoding_jobs
    rAuto,      \* AUTO_RESTART_JOBS_ON_BOOT
    rRun,       \* which run of run_recovery this is
    rPc,        \* position of the run
    rQueue,     \* rows fetched as RUNNING and not yet updated
    rReturned,  \* per run: the ids recover_running_jobs_on_restart returned
    rTodo,      \* recovered ids the restart loop has not reached yet
    rAttempts,  \* per job: calls of start_recovered_job in this run
    rOutcome,   \* per job: how its restart attempt of this run ended
    rRestarted, \* the loop's counter restarted
    rFailed,    \* the loop's counter failed
    rStats,     \* per run: the statistics the run returned
    rLive,      \* per job: the process a restart launched is running
    rCur,       \* the job start_recovered_job is working on, 0 = none
    rByRequest, \* jobs whose running process a start_job request of this run launched
    \* ---- specifications of single functions
    fnIn,       \* the arguments of the call, and the state it reads
    fnOut       \* whether the call has returned, and what

smVars == <<smJob, smDb, smCall, smClock>>
dbVars == <<db, dbExists, cmdHasId>>
osVars == <<proc, kids, pipeKids, stdinClosed>>
tabVars == <<active, stats>>
startVars == <<pcS, jobS, startCall>>
monVars == <<pcM, cbComplete, cbError>>
stopVars == <<pcT, jobT, targetT, stopCall>>
killVars == <<pcK, jobK, killCall>>
sysVars == <<dbVars, osVars, tabVars, startVars, monVars, stopVars, pcR, killVars>>
recVars == <<rdb, rAuto, rRun, rPc, rQueue, rReturned, rTodo, rAttempts,
             rOutcome, rRestarted, rFailed, rStats, rLive, rCur, rByRequest>>
fnVars == <<fnIn, fnOut>>
escVars == <<pcQ, sigLog>>
vars == <<smVars, sysVars, recVars, fnVars, escVars>>

JobRecs ==
    {JobRec(st, sa, so, p, em) :
        st \in JobStatus, sa \in {NoTime, 1}, so \in {NoTime, 1},
        p \in {NoPid, 1}, em \in {NoMsg, "old"}}

NoCall == [outcome |-> "none", from |-> PENDING, to |-> PENDING, pid |-> NoPid,
           jobBefore |-> JobRec(PENDING, NoTime, NoTime, NoPid, NoMsg),
           dbBefore |-> JobRec(PENDING, NoTime, NoTime, NoPid, NoMsg)]

\* the job was loaded from its row, so both start equal
SMInit ==
    /\ smJob \in JobRecs
    /\ smDb = smJob
    /\ smCall = NoCall
    /\ smClock = 2

\* transition(job, new_status, error_message, pid), the UPDATE succeeding
SMTransitionOk(new_status, error_message, pid) ==
    /\ smClock <= MaxClock
    /\ is_valid_transition(smJob.status, new_status)
    /\ smJob' = ApplyTransition(smJob, new_status, error_message, pid, smClock)
    /\ smDb' = smJob'
    /\ smCall' = [outcome |-> "ok", from |-> smJob.status, to |-> new_status,
                  pid |-> pid,
                  jobBefore |-> smJob, dbBefore |-> smDb]
    /\ smClock' = smClock + 1
    /\ UNCHANGED <<sysVars, recVars, fnVars, escVars>>

\* transition where _update_job_status raises: the fields are already set
SMTransitionDbError(new_status, error_message, pid) ==
    /\ smClock <= MaxClock
    /\ is_valid_transition(smJob.status, new_status)
    /\ smJob' = ApplyTransition(smJob, new_status, error_message, pid, smClock)
    /\ smDb' = smDb
    /\ smCall' = [outcome |-> "DbError", from |-> smJob.status, to |-> new_status,
                  pid |-> pid,
                  jobBefore |-> smJob, dbBefore |-> smDb]
    /\ smClock' = smClock + 1
    /\ UNCHANGED <<sysVars, recVars, fnVars, escVars>>

\* a rejection that raises after the status was assigned
SMTransitionCoerced(new_status) ==
    /\ smClock <= MaxClock
    /\ ~is_valid_transition(smJob.status, new_status)
    /\ smCall' = [outcome |-> "TransitionError", from |-> smJob.status,
                  to |-> new_status, pid |-> NoPid, jobBefore |-> smJob, dbBefore |-> smDb]
    /\ smClock' = smClock + 1
    /\ smJob' = [smJob EXCEPT !.status = new_status]
    /\ UNCHANGED <<smDb, sysVars, recVars, fnVars, escVars>>

\* transition rejected at line 60-63: raise TransitionError
SMTransitionRejected(new_status) ==
    /\ smClock <= MaxClock
    /\ ~is_valid_transition(smJob.status, new_status)
    /\ smCall' = [outcome |-> "TransitionError", from |-> smJob.status,
                  to |-> new_status, pid |-> NoPid, jobBefore |-> smJob, dbBefore |-> smDb]
    /\ smClock' = smClock + 1
    /\ UNCHANGED <<smJob, smDb, sysVars, recVars, fnVars, escVars>>

SMNext ==
    \/ \E n \in JobStatus, e \in MsgArgs, p \in PidArgs : SMTransitionOk(n, e, p)
    \/ \E n \in JobStatus, e \in MsgArgs, p \in PidArgs : SMTransitionDbError(n, e, p)
    \/ \E n \in JobStatus : SMTransitionRejected(n)


(***************************************************************************)
(* One job: requests, launcher, monitor tasks, processes                   *)
(***************************************************************************)
\* bounds: the start requests Spec follows, one after the other, and the
\* start requests on the same job that SpecStarts lets overlap
MaxLaunch == 1
MaxStarts == 2

\* a launch is one start_job request together with the process it spawns
\* and the monitor task of that process; the process of launch l has pid l
Launches == 1..MaxStarts

Fresh == JobRec(PENDING, NoTime, NoTime, NoPid, NoMsg)

\* rows of a job that is not running: never started, or stopped earlier
IdleRows ==
    {Fresh, JobRec(STOPPED, 1, 1, NoPid, NoMsg)}

NoStop == [ret |-> "none", hadHandle |-> FALSE, leftAlive |-> FALSE, raced |-> FALSE]
NoKill == [ret |-> "none", leftAlive |-> FALSE]
NoStart == [ret |-> "none", leftActive |-> FALSE, leftStats |-> FALSE]

\* bound: the stop_encoding calls on one job that SpecStops lets overlap
MaxStops == 2
Callers == 1..MaxStops
NoStopCall == [at |-> "idle", target |-> 0]

\* the supervisor right after construction: empty tables, no request in
\* progress (the processes of the machine are left to the caller)
SysQuiet ==
    /\ dbExists = TRUE
    /\ pipeKids = [l \in Launches |-> FALSE]
    /\ stdinClosed = [l \in Launches |-> FALSE]
    /\ active = 0
    /\ stats = 0
    /\ pcS = [l \in Launches |-> "idle"]
    /\ jobS = [l \in Launches |-> Fresh]
    /\ startCall = [l \in Launches |-> NoStart]
    /\ pcM = [l \in Launches |-> "none"]
    /\ cbComplete = [l \in Launches |-> 0]
    /\ cbError = [l \in Launches |-> 0]
    /\ pcT = "idle"
    /\ jobT = Fresh
    /\ targetT = 0
    /\ stopCall = NoStop
    /\ pcR = "idle"
    /\ pcK = "idle"
    /\ jobK = Fresh
    /\ killCall = NoKill
    /\ pcQ = [c \in Callers |-> NoStopCall]
    /\ sigLog = <<>>

SysIdle ==
    /\ SysQuiet
    /\ proc = [l \in Launches |-> "none"]
    /\ kids = [l \in Launches |-> FALSE]

\* bounds of the specification SpecRec
MaxJobs == 2
MaxRuns == 2

Jobs == 1..MaxJobs
Runs == 1..MaxRuns

NoStats == [returned |-> FALSE, recovered |-> 0, restarted |-> 0, failed |-> 0]

\* the per-run bookkeeping of recovery before a run has begun
RecRunIdle ==
    /\ rQueue = {}
    /\ rTodo = {}
    /\ rAttempts = [j \in Jobs |-> 0]
    /\ rOutcome = [j \in Jobs |-> "none"]
    /\ rRestarted = 0
    /\ rFailed = 0
    /\ rCur = 0

RecIdle ==
    /\ rdb = [j \in Jobs |-> Fresh]
    /\ rAuto = TRUE
    /\ rRun = 1
    /\ rPc = "off"
    /\ rReturned = [r \in Runs |-> {}]
    /\ rStats = [r \in Runs |-> NoStats]
    /\ rLive = [j \in Jobs |-> FALSE]
    /\ rByRequest = {}
    /\ RecRunIdle

NoReturn == [returned |-> FALSE, value |-> "none"]
Return(v) == [returned |-> TRUE, value |-> v]

FnIdle ==
    /\ fnIn = "none"
    /\ fnOut = NoReturn

SMIdle ==
    /\ smJob = Fresh
    /\ smDb = Fresh
    /\ smCall = NoCall
    /\ smClock = 1

Init ==
    /\ SMIdle
    /\ db \in IdleRows
    /\ cmdHasId \in BOOLEAN
    /\ SysIdle
    /\ RecIdle
    /\ FnIdle

\* EncodingJob.can_start
can_start(job) == job.status \in {PENDING, STOPPED, ERROR, COMPLETED}

\* ------------------------------------------------------------ processes
\* whether a live descendant still holds the pipes after some descendants
\* have ended: left tells whether any is left
PipeAfter(held, left) ==
    IF left /\ held THEN BOOLEAN ELSE {FALSE}

\* the process ends by itself (end of input, encoder failure, 'q' on stdin)
ProcExit(l) ==
    /\ proc[l] = "alive"
    /\ \E rc \in {"exit0", "exit1"} : proc' = [proc EXCEPT ![l] = rc]
    /\ UNCHANGED <<kids, pipeKids, stdinClosed, smVars, recVars, fnVars, escVars, dbVars, tabVars,
                   startVars, monVars, stopVars, pcR, killVars>>

\* descendants end by themselves, all of them or some
KidExit(l) ==
    /\ kids[l]
    /\ \E left \in BOOLEAN :
        /\ kids' = [kids EXCEPT ![l] = left]
        /\ \E h \in PipeAfter(pipeKids[l], left) :
               pipeKids' = [pipeKids EXCEPT ![l] = h]
    /\ UNCHANGED <<proc, stdinClosed, smVars, recVars, fnVars, escVars, dbVars, tabVars, startVars,
                   monVars, stopVars, pcR, killVars>>

\* a signal round on the tree of launch l (terminate + wait, then kill + wait):
\* the parent survives or not, descendants survive or not (ks)
Signalled(l, parentSurvives, ks, rc) ==
    /\ proc' = [proc EXCEPT ![l] = IF parentSurvives THEN "alive" ELSE rc]
    /\ kids' = [kids EXCEPT ![l] = ks]
    /\ \E h \in PipeAfter(pipeKids[l], ks) :
           pipeKids' = [pipeKids EXCEPT ![l] = h]

\* the descendants of launch l that can be alive after a signal round
Survivors(l) == {ks \in BOOLEAN : ks => kids[l]}

\* ------------------------------------------------------------- launcher
\* SimpleFfmpegLauncher.is_job_running(job_id, pid) in a given process table
\* process names the launcher takes for ffmpeg: 'ffmpeg' and names that
\* start with it (lines 473 and 486)
NameIsFfmpeg(name) == name \in {"ffmpeg", "ffmpeg-static"}

\* first check (lines 461-464): the job is in active_processes and the
\* handle's returncode is None
HandleRunning(handle) == handle = "running"

\* strategy 1 (lines 467-479): psutil.Process(pid) exists and has an ffmpeg name
PidRunning(pid, table) ==
    TruthyPid(pid) /\ \E p \in table : p.pid = pid /\ NameIsFfmpeg(p.name)

\* a scan that finds nothing
CmdlineRunningNever(table) == FALSE

\* strategy 2 (lines 483-493): some process with an ffmpeg name has the job
\* id in its command line
CmdlineRunning(table) ==
    \E p \in table : NameIsFfmpeg(p.name) /\ p.cmdline = "job_id"

\* is_job_running on a handle state ("none", "running", "exited"), a pid
\* argument and the process table psutil shows
is_job_running_in(handle, pid, table) ==
    \/ HandleRunning(handle)
    \/ PidRunning(pid, table)
    \/ CmdlineRunning(table)

\* the process table of Spec: the live launches, all of them ffmpeg
ProcTable(procV) ==
    {[pid |-> l, name |-> "ffmpeg",
      cmdline |-> IF cmdHasId THEN "job_id" ELSE "other"] :
        l \in {k \in Launches : procV[k] = "alive"}}

\* the handle of the job in a given active_processes
HandleOf(activeV, procV) ==
    IF activeV = 0 THEN "none"
    ELSE IF procV[activeV] = "alive" THEN "running" ELSE "exited"

is_job_running(activeV, procV, pid) ==
    is_job_running_in(HandleOf(activeV, procV), pid, ProcTable(procV))

\* SimpleFfmpegLauncher._cleanup_job: both tables lose the job's entry
CleanedActive(activeV) == 0
CleanedStats(statsV) == 0


\* the row written by mark_job_running(job, pid of launch l): transition to
\* RUNNING with a pid sets all five fields, whatever the job held before
RunningRow(l) == ApplyTransition(Fresh, RUNNING, NoMsg, l, 1)

\* ------------------------------------------------------------ start_job
\* start_job up to its first awaits: the job is read, can_start is checked
StartRead(l) ==
    /\ pcS[l] = "idle"
    /\ IF dbExists
         THEN /\ jobS' = [jobS EXCEPT ![l] = db]
              /\ pcS' = [pcS EXCEPT ![l] = IF can_start(db) THEN "loaded" ELSE "failed"]
         ELSE /\ pcS' = [pcS EXCEPT ![l] = "failed"]
              /\ UNCHANGED jobS
    /\ UNCHANGED <<startCall, smVars, recVars, fnVars, escVars, dbVars, osVars, tabVars, monVars, stopVars, pcR, killVars>>

\* a client that sends its next start request after the previous one has
\* been answered
StartLoad(l) ==
    /\ l <= MaxLaunch
    /\ (IF l = 1 THEN TRUE ELSE pcS[l - 1] \in {"done", "failed"})
    /\ StartRead(l)

\* start requests on the same job sent at any time (two clients, a client
\* that repeats its request, or a request and the restart made by startup
\* recovery, whose start_recovered_job takes the same steps): nothing in
\* start_job or start_encoding makes one wait for the other
StartLoadAnyTime(l) == StartRead(l)

\* start_encoding fails before a process exists (no command, spawn failure):
\* it returns False and start_job answers 500
StartNoSpawn(l) ==
    /\ pcS[l] = "loaded"
    /\ startCall' = [startCall EXCEPT ![l] =
                        [ret |-> "False", leftActive |-> FALSE, leftStats |-> FALSE]]
    /\ pcS' = [pcS EXCEPT ![l] = "failed"]
    /\ UNCHANGED <<jobS, smVars, recVars, fnVars, escVars, dbVars, osVars, tabVars, monVars, stopVars, pcR, killVars>>

\* create_subprocess_exec returned: the process of launch l runs, with the
\* descendants it is going to have or without any (k), which hold its
\* stdout/stderr pipes or not
Spawned(l, k, holds) ==
    /\ proc' = [proc EXCEPT ![l] = "alive"]
    /\ kids' = [kids EXCEPT ![l] = k]
    /\ pipeKids' = [pipeKids EXCEPT ![l] = k /\ holds]

\* start_encoding spawns the process and registers it, then writing the log
\* header raises: no monitor task is created, it returns False (lines 85-115)
StartHeaderFail(l) ==
    /\ pcS[l] = "loaded"
    /\ \E k \in BOOLEAN, holds \in BOOLEAN : Spawned(l, k, holds)
    /\ active' = l
    /\ stats' = l
    /\ startCall' = [startCall EXCEPT ![l] =
                        [ret |-> "False", leftActive |-> active' = l,
                         leftStats |-> stats' = l]]
    /\ pcS' = [pcS EXCEPT ![l] = "failed"]
    /\ UNCHANGED <<jobS, stdinClosed, smVars, recVars, fnVars, escVars, dbVars, monVars,
                   stopVars, pcR, killVars>>

\* start_encoding succeeds: process spawned and registered, header written,
\* monitor task created; start_job then reads the pid from active_processes
\* and calls mark_job_running, which sets the fields and awaits the UPDATE
StartSpawned(l) ==
    /\ pcS[l] = "loaded"
    /\ \E k \in BOOLEAN, holds \in BOOLEAN : Spawned(l, k, holds)
    /\ active' = l
    /\ stats' = l
    /\ pcM' = [pcM EXCEPT ![l] = "created"]
    /\ startCall' = [startCall EXCEPT ![l] =
                        [ret |-> "True", leftActive |-> TRUE, leftStats |-> TRUE]]
    /\ IF is_valid_transition(jobS[l].status, RUNNING)
         THEN /\ jobS' = [jobS EXCEPT ![l] =
                             ApplyTransition(@, RUNNING, NoMsg, l, 1)]
              /\ pcS' = [pcS EXCEPT ![l] = "marking"]
         ELSE /\ pcS' = [pcS EXCEPT ![l] = "failed"]
              /\ UNCHANGED jobS
    /\ UNCHANGED <<stdinClosed, cbComplete, cbError, smVars, recVars, fnVars, escVars,
                   dbVars, stopVars, pcR, killVars>>

\* the UPDATE of mark_job_running commits
StartMarkWrite(l) ==
    /\ pcS[l] = "marking"
    /\ db' = IF dbExists THEN RunningRow(l) ELSE db
    /\ pcS' = [pcS EXCEPT ![l] = "done"]
    /\ UNCHANGED <<dbExists, cmdHasId, jobS, startCall, smVars, recVars, fnVars, escVars, osVars,
                   tabVars, monVars, stopVars, pcR, killVars>>

\* the UPDATE of mark_job_running raises: start_job answers 500
StartMarkDbError(l) ==
    /\ pcS[l] = "marking"
    /\ pcS' = [pcS EXCEPT ![l] = "failed"]
    /\ UNCHANGED <<jobS, startCall, smVars, recVars, fnVars, escVars, dbVars, osVars, tabVars, monVars,
                   stopVars, pcR, killVars>>

\* ------------------------------------------------------ _monitor_process
\* a finally block that leaves active_processes as it is
MonitorFinallyKeeps(activeV) == activeV

\* the finally block: the job's entry of active_processes is removed
MonitorFinally(activeV) == 0

\* a callback reached from the monitor marks the shared job: on_complete with
\* exit code 0 -> mark_job_completed, on_error -> mark_job_error
MonCallback(l, new_status, msg) ==
    IF is_valid_transition(jobS[l].status, new_status)
      THEN /\ jobS' = [jobS EXCEPT ![l] =
                          ApplyTransition(@, new_status, msg, NoPid, 1)]
           /\ pcM' = [pcM EXCEPT ![l] = "cbwrite"]
           /\ UNCHANGED tabVars
      ELSE \* TransitionError inside the callback is caught; finally runs
           /\ pcM' = [pcM EXCEPT ![l] = "done"]
           /\ active' = MonitorFinally(active)
           /\ UNCHANGED <<jobS, stats>>

\* first run of the task: the log file is opened when job_stats has the job
MonBegin(l) ==
    /\ pcM[l] = "created"
    /\ pcM' = [pcM EXCEPT ![l] = IF stats # 0 THEN "waiting" ELSE "waitingNoLog"]
    /\ UNCHANGED <<cbComplete, cbError, smVars, recVars, fnVars, escVars, dbVars, osVars, tabVars,
                   startVars, stopVars, pcR, killVars>>

\* opening the log raises: the except branch calls on_error at once
MonLogOpenFail(l) ==
    /\ pcM[l] = "created"
    /\ stats # 0
    /\ cbError' = [cbError EXCEPT ![l] = @ + 1]
    /\ MonCallback(l, ERROR, "err")
    /\ UNCHANGED <<cbComplete, pcS, startCall, smVars, recVars, fnVars, escVars, dbVars, osVars,
                   stopVars, pcR, killVars>>

\* process.wait() and both stream readers have returned, the exit code was
\* logged: exactly one callback is called, by the exit code
MonExit(l) ==
    /\ pcM[l] \in {"waiting", "waitingNoLog"}
    /\ proc[l] \in {"exit0", "exit1"}
    /\ ~pipeKids[l]
    /\ IF proc[l] = "exit0"
         THEN /\ cbComplete' = [cbComplete EXCEPT ![l] = @ + 1]
              /\ MonCallback(l, COMPLETED, NoMsg)
              /\ UNCHANGED cbError
         ELSE /\ cbError' = [cbError EXCEPT ![l] = @ + 1]
              /\ MonCallback(l, ERROR, "err")
              /\ UNCHANGED cbComplete
    /\ UNCHANGED <<pcS, startCall, smVars, recVars, fnVars, escVars, dbVars, osVars, stopVars, pcR, killVars>>

\* writing the exit code to the log raises: the except branch calls on_error
MonLogWriteFail(l) ==
    /\ pcM[l] = "waiting"
    /\ proc[l] \in {"exit0", "exit1"}
    /\ ~pipeKids[l]
    /\ cbError' = [cbError EXCEPT ![l] = @ + 1]
    /\ MonCallback(l, ERROR, "err")
    /\ UNCHANGED <<cbComplete, pcS, startCall, smVars, recVars, fnVars, escVars, dbVars, osVars,
                   stopVars, pcR, killVars>>

\* the UPDATE of the callback's transition commits; a completed job flagged
\* archive_on_complete goes on to archiving, otherwise the callback returns
\* and the finally block runs
MonCbWrite(l) ==
    /\ pcM[l] = "cbwrite"
    /\ db' = IF dbExists THEN jobS[l] ELSE db
    /\ \E archive_on_complete \in BOOLEAN :
       IF jobS[l].status = COMPLETED /\ archive_on_complete
         THEN /\ pcM' = [pcM EXCEPT ![l] = "archiving"]
              /\ UNCHANGED tabVars
         ELSE /\ pcM' = [pcM EXCEPT ![l] = "done"]
              /\ active' = MonitorFinally(active)
              /\ UNCHANGED stats
    /\ UNCHANGED <<dbExists, cmdHasId, cbComplete, cbError, smVars, recVars, fnVars, escVars,
                   osVars, startVars, stopVars, pcR, killVars>>

\* the UPDATE raises inside the callback: caught by the monitor, finally runs
MonCbDbError(l) ==
    /\ pcM[l] = "cbwrite"
    /\ pcM' = [pcM EXCEPT ![l] = "done"]
    /\ active' = MonitorFinally(active)
    /\ UNCHANGED <<stats, cbComplete, cbError, smVars, recVars, fnVars, escVars, dbVars, osVars,
                   startVars, stopVars, pcR, killVars>>

\* archiving that deletes the row whatever archive_job reported
MonArchiveDeletesAnyway(l) ==
    /\ pcM[l] = "archiving"
    /\ dbExists' = FALSE
    /\ pcM' = [pcM EXCEPT ![l] = "done"]
    /\ active' = MonitorFinally(active)
    /\ UNCHANGED <<db, cmdHasId, stats, cbComplete, cbError, smVars, recVars, fnVars, escVars,
                   osVars, startVars, stopVars, pcR, killVars>>

\* mark_job_completed: the reads and archive_job have returned; when
\* archive_job reported success the DELETE is next, when it reported failure,
\* a row was missing or anything raised, the error is logged, the callback
\* returns and the finally block runs
MonArchive(l) ==
    /\ pcM[l] = "archiving"
    /\ \E archived \in BOOLEAN :
          IF archived
            THEN /\ pcM' = [pcM EXCEPT ![l] = "deleting"]
                 /\ UNCHANGED active
            ELSE /\ pcM' = [pcM EXCEPT ![l] = "done"]
                 /\ active' = MonitorFinally(active)
    /\ UNCHANGED <<db, dbExists, cmdHasId, stats, cbComplete, cbError, smVars, recVars,
                   fnVars, escVars, osVars, startVars, stopVars, pcR, killVars>>

\* its DELETE of the live row commits, or raises and is caught; then the
\* finally block
MonDelete(l) ==
    /\ pcM[l] = "deleting"
    /\ \E deleted \in BOOLEAN : dbExists' = (dbExists /\ ~deleted)
    /\ pcM' = [pcM EXCEPT ![l] = "done"]
    /\ active' = MonitorFinally(active)
    /\ UNCHANGED <<db, cmdHasId, stats, cbComplete, cbError, smVars, recVars, fnVars, escVars,
                   osVars, startVars, stopVars, pcR, killVars>>


\* ------------------------------------------------------------- stop_job
\* the monitor task of the process held in active_processes has not yet seen
\* the process exit
Unobserved(activeV) ==
    activeV # 0 /\ pcM[activeV] \in {"created", "waiting", "waitingNoLog"}

\* stop_job after stop_encoding has returned ret (lines 994-1006): the
\* running check on the tables and processes as they now are, then
\* mark_job_stopped, which sets the fields and awaits the UPDATE
AfterStopEncoding(job, ret, hadHandle, leftAlive) ==
    /\ stopCall' = [ret |-> IF ret THEN "True" ELSE "False",
                    hadHandle |-> hadHandle, leftAlive |-> leftAlive,
                    raced |-> IF pcT = "quit" THEN stopCall.raced
                              ELSE Unobserved(active)]
    /\ IF is_job_running(active', proc', job.pid)
         THEN /\ pcT' = "failed"
              /\ jobT' = job
         ELSE IF is_valid_transition(job.status, STOPPED)
         THEN /\ pcT' = "marking"
              /\ jobT' = ApplyTransition(job, STOPPED, NoMsg, NoPid, 1)
         ELSE /\ pcT' = "failed"
              /\ jobT' = job

\* stop_encoding, steps 2 and 3 (lines 267-327), one blocking stretch:
\* NoSuchProcess when the parent is gone; otherwise terminate the tree, wait,
\* kill what is left, wait; False when anything enumerated is still alive
Escalate(job, l) ==
    IF proc[l] # "alive"
      THEN /\ UNCHANGED <<proc, kids, pipeKids>>
           /\ active' = CleanedActive(active)
           /\ stats' = CleanedStats(stats)
           /\ AfterStopEncoding(job, TRUE, TRUE, kids[l])
      ELSE \E parentSurvives \in BOOLEAN, ks \in Survivors(l), rc \in {"exit0", "exit1"} :
           /\ Signalled(l, parentSurvives, ks, rc)
           /\ IF parentSurvives \/ ks
                THEN /\ UNCHANGED tabVars
                     /\ AfterStopEncoding(job, FALSE, TRUE, TRUE)
                ELSE /\ active' = CleanedActive(active)
                     /\ stats' = CleanedStats(stats)
                     /\ AfterStopEncoding(job, TRUE, TRUE, FALSE)

\* a scan that reports success whatever it found
ScanResultAlways(matched) == TRUE

\* the result of strategy 2 (lines 435-444): True when the scan killed some
\* process, False when it found none
ScanResult(matched) == matched # {}

\* _force_kill_by_job_id(job_id, pid), one blocking stretch.  Strategy 1: the
\* pid names a live ffmpeg process: kill its tree, wait, False when anything
\* is left.  Strategy 2: every live ffmpeg process whose command line holds
\* the job id is sent a kill with its children, nothing is waited for, and
\* the result is whether any was found
KillByJobId(pid, ret, leftAlive) ==
    IF TruthyPid(pid) /\ pid \in Launches /\ proc[pid] = "alive"
      THEN \E parentSurvives \in BOOLEAN, ks \in Survivors(pid), rc \in {"exit0", "exit1"} :
           /\ Signalled(pid, parentSurvives, ks, rc)
           /\ ret = ~(parentSurvives \/ ks)
           /\ leftAlive = (parentSurvives \/ ks)
      ELSE LET matched == {l \in Launches : cmdHasId /\ proc[l] = "alive"} IN
           \E surv \in SUBSET matched, ksf \in [Launches -> BOOLEAN],
              hf \in [Launches -> BOOLEAN] :
           /\ \A l \in Launches :
                /\ ksf[l] \in Survivors(l)
                /\ l \notin matched => ksf[l] = kids[l] /\ hf[l] = pipeKids[l]
                /\ hf[l] \in PipeAfter(pipeKids[l], ksf[l])
           /\ proc' = [l \in Launches |->
                          IF l \in matched \ surv THEN "exit1" ELSE proc[l]]
           /\ kids' = ksf
           /\ pipeKids' = hf
           /\ ret = ScanResult(matched)
           /\ leftAlive = (\E l \in matched : l \in surv \/ ksf[l])

\* stop_encoding for a job without a runtime handle (lines 237-241): the
\* force kill, whose result is returned as it is
ForceKill(job) ==
    \E ret \in BOOLEAN, leftAlive \in BOOLEAN :
        /\ KillByJobId(job.pid, ret, leftAlive)
        /\ UNCHANGED tabVars
        /\ AfterStopEncoding(job, ret, FALSE, leftAlive)

\* stop_job up to the first await of stop_encoding: the job is read and must
\* be RUNNING; without a runtime handle stop_encoding is the force kill; with
\* one, 'q' is written to stdin, stdin is closed and the 2 s wait begins
StopLoad ==
    /\ pcT = "idle"
    /\ IF ~dbExists \/ db.status # RUNNING
         THEN /\ pcT' = "failed"
              /\ jobT' = IF dbExists THEN db ELSE jobT
              /\ UNCHANGED <<targetT, stopCall, osVars, tabVars>>
         ELSE IF active = 0
         THEN /\ ForceKill(db)
              /\ UNCHANGED <<targetT, stdinClosed>>
         ELSE IF ~stdinClosed[active]
         THEN /\ stdinClosed' = [stdinClosed EXCEPT ![active] = TRUE]
              /\ targetT' = active
              /\ jobT' = db
              /\ pcT' = "quit"
              /\ stopCall' = [NoStop EXCEPT !.raced = Unobserved(active)]
              /\ UNCHANGED <<proc, kids, pipeKids, tabVars>>
         ELSE /\ targetT' = active
              /\ Escalate(db, active)
              /\ UNCHANGED stdinClosed
    /\ UNCHANGED <<smVars, recVars, fnVars, escVars, dbVars, startVars, monVars, pcR, killVars>>

\* the 2 s wait is over: the process has exited (cleanup, True), or it has
\* not and the escalation runs
StopAfterQuit ==
    /\ pcT = "quit"
    /\ IF proc[targetT] # "alive"
         THEN /\ UNCHANGED <<proc, kids, pipeKids>>
              /\ active' = CleanedActive(active)
              /\ stats' = CleanedStats(stats)
              /\ AfterStopEncoding(jobT, TRUE, TRUE, kids[targetT])
         ELSE Escalate(jobT, targetT)
    /\ UNCHANGED <<targetT, stdinClosed, smVars, recVars, fnVars, escVars, dbVars, startVars, monVars, pcR, killVars>>

\* the UPDATE of mark_job_stopped commits
StopMarkWrite ==
    /\ pcT = "marking"
    /\ db' = IF dbExists THEN jobT ELSE db
    /\ pcT' = "done"
    /\ UNCHANGED <<dbExists, cmdHasId, jobT, targetT, stopCall, smVars, recVars, fnVars, escVars,
                   osVars, tabVars, startVars, monVars, pcR, killVars>>

\* the UPDATE of mark_job_stopped raises: stop_job answers 500
StopMarkDbError ==
    /\ pcT = "marking"
    /\ pcT' = "failed"
    /\ UNCHANGED <<jobT, targetT, stopCall, smVars, recVars, fnVars, escVars, dbVars, osVars, tabVars,
                   startVars, monVars, pcR, killVars>>

\* ------------------------------------------ overlapping stop_encoding calls
\* Calls of stop_encoding on the same job made at any time (two stop
\* requests, or a stop request and the orphan stop of start_recovered_job):
\* nothing in stop_job or in the launcher keeps them apart.  sigLog records
\* what the calls do to the tree, in order.
Event(c, ev, to) == [call |-> c, ev |-> ev, to |-> to]

\* the tree psutil enumerates for launch l: the parent and its descendants
Members(l) == {"parent"} \cup (IF kids[l] THEN {"children"} ELSE {})

\* steps 2 and 3 of call c on the tree of launch l (lines 267-327), one
\* blocking stretch after log: NoSuchProcess when the parent is gone;
\* otherwise terminate every member, wait_procs(timeout), kill the members
\* it reports alive, wait_procs(3); False when one of those is still alive,
\* otherwise cleanup and True
TerminateTree(c, l, log) ==
    IF proc[l] # "alive"
      THEN /\ UNCHANGED <<proc, kids, pipeKids>>
           /\ sigLog' = log
           /\ active' = CleanedActive(active)
           /\ stats' = CleanedStats(stats)
           /\ pcQ' = [pcQ EXCEPT ![c] = [at |-> "True", target |-> l]]
      ELSE \E alive \in SUBSET Members(l), rc \in {"exit0", "exit1"} :
           \E still_alive \in SUBSET alive :
           /\ Signalled(l, "parent" \in still_alive, "children" \in still_alive, rc)
           /\ sigLog' = log \o <<Event(c, "terminate", Members(l))>>
                            \o (IF alive # {} THEN <<Event(c, "kill", alive)>>
                                ELSE <<>>)
           /\ IF still_alive # {}
                THEN /\ UNCHANGED tabVars
                     /\ pcQ' = [pcQ EXCEPT ![c] = [at |-> "False", target |-> l]]
                ELSE /\ active' = CleanedActive(active)
                     /\ stats' = CleanedStats(stats)
                     /\ pcQ' = [pcQ EXCEPT ![c] = [at |-> "True", target |-> l]]

\* stop_encoding(job_id, timeout, pid) up to its first await (lines 237-256):
\* without a runtime handle it is the force kill; with one whose stdin is
\* open, 'q' is written, stdin is closed and the 2 s wait begins; with one
\* whose stdin is closing, step 1 is skipped
StopEncodingCall(c) ==
    /\ pcQ[c].at = "idle"
    /\ dbExists
    /\ IF active = 0
         THEN \E ret \in BOOLEAN, leftAlive \in BOOLEAN :
              /\ KillByJobId(db.pid, ret, leftAlive)
              /\ pcQ' = [pcQ EXCEPT ![c].at = IF ret THEN "True" ELSE "False"]
              /\ UNCHANGED <<tabVars, stdinClosed, sigLog>>
         ELSE IF ~stdinClosed[active]
         THEN /\ stdinClosed' = [stdinClosed EXCEPT ![active] = TRUE]
              /\ pcQ' = [pcQ EXCEPT ![c] = [at |-> "waiting", target |-> active]]
              /\ sigLog' = Append(sigLog, Event(c, "quit", {"parent"}))
              /\ UNCHANGED <<proc, kids, pipeKids, tabVars>>
         ELSE /\ TerminateTree(c, active, sigLog)
              /\ UNCHANGED stdinClosed
    /\ UNCHANGED <<smVars, recVars, fnVars, dbVars, startVars, monVars, stopVars,
                   pcR, killVars>>

\* a wait for the exit of the process that has no timeout
StopEncodingWaitsForExit(c) ==
    /\ pcQ[c].at = "waiting"
    /\ proc[pcQ[c].target] # "alive"
    /\ TerminateTree(c, pcQ[c].target, sigLog)
    /\ UNCHANGED <<stdinClosed, smVars, recVars, fnVars, dbVars, startVars, monVars,
                   stopVars, pcR, killVars>>

\* the 2 s wait of call c is over (lines 258-265): the process has exited
\* (cleanup, True), or the wait has expired and steps 2 and 3 run
StopEncodingWaited(c) ==
    /\ pcQ[c].at = "waiting"
    /\ TerminateTree(c, pcQ[c].target,
                     IF proc[pcQ[c].target] = "alive"
                       THEN Append(sigLog, Event(c, "expired", {"parent"}))
                       ELSE sigLog)
    /\ UNCHANGED <<stdinClosed, smVars, recVars, fnVars, dbVars, startVars, monVars,
                   stopVars, pcR, killVars>>

NextStops ==
    \/ \E l \in Launches : ProcExit(l)
    \/ \E l \in Launches : KidExit(l)
    \/ \E l \in Launches : StartLoad(l)
    \/ \E l \in Launches : StartNoSpawn(l)
    \/ \E l \in Launches : StartHeaderFail(l)
    \/ \E l \in Launches : StartSpawned(l)
    \/ \E l \in Launches : StartMarkWrite(l)
    \/ \E l \in Launches : StartMarkDbError(l)
    \/ \E c \in Callers : StopEncodingCall(c)
    \/ \E c \in Callers : StopEncodingWaited(c)

\* the stop_encoding calls that overlap on the process of the first launch
NextStopsOne ==
    \/ ProcExit(1)
    \/ KidExit(1)
    \/ StartLoad(1)
    \/ StartNoSpawn(1)
    \/ StartHeaderFail(1)
    \/ StartSpawned(1)
    \/ StartMarkWrite(1)
    \/ StartMarkDbError(1)
    \/ \E c \in Callers : StopEncodingCall(c)
    \/ \E c \in Callers : StopEncodingWaited(c)

\* ------------------------------------------- overlapping start requests
NextStarts ==
    \/ \E l \in Launches : ProcExit(l)
    \/ \E l \in Launches : StartLoadAnyTime(l)
    \/ \E l \in Launches : StartNoSpawn(l)
    \/ \E l \in Launches : StartHeaderFail(l)
    \/ \E l \in Launches : StartSpawned(l)
    \/ \E l \in Launches : StartMarkWrite(l)
    \/ \E l \in Launches : StartMarkDbError(l)
    \/ \E l \in Launches : MonBegin(l)
    \/ \E l \in Launches : MonLogOpenFail(l)
    \/ \E l \in Launches : MonExit(l)
    \/ \E l \in Launches : MonLogWriteFail(l)
    \/ \E l \in Launches : MonCbWrite(l)
    \/ \E l \in Launches : MonCbDbError(l)
    \/ \E l \in Launches : MonArchive(l)
    \/ \E l \in Launches : MonDelete(l)

\* -------------------------------------------------------- force_kill_job
\* the route reads the job (404 when there is none), calls
\* _force_kill_by_job_id with the persisted pid, calls _cleanup_job, and, when
\* the job it read is RUNNING, calls mark_job_stopped, which sets the fields
\* and awaits the UPDATE; the result of the kill is only reported
ForceKillLoad ==
    /\ pcK = "idle"
    /\ IF ~dbExists
         THEN /\ pcK' = "failed"
              /\ UNCHANGED <<jobK, killCall, osVars, tabVars>>
         ELSE \E ret \in BOOLEAN, leftAlive \in BOOLEAN :
              /\ KillByJobId(db.pid, ret, leftAlive)
              /\ killCall' = [ret |-> IF ret THEN "True" ELSE "False",
                              leftAlive |-> leftAlive]
              /\ active' = CleanedActive(active)
              /\ stats' = CleanedStats(stats)
              /\ UNCHANGED stdinClosed
              /\ IF db.status = RUNNING /\ is_valid_transition(RUNNING, STOPPED)
                   THEN /\ pcK' = "marking"
                        /\ jobK' = ApplyTransition(db, STOPPED, NoMsg, NoPid, 1)
                   ELSE /\ pcK' = "done"
                        /\ jobK' = db
    /\ UNCHANGED <<smVars, recVars, fnVars, escVars, dbVars, startVars, monVars, stopVars, pcR>>

\* the UPDATE of mark_job_stopped commits
ForceKillMarkWrite ==
    /\ pcK = "marking"
    /\ db' = IF dbExists THEN jobK ELSE db
    /\ pcK' = "done"
    /\ UNCHANGED <<dbExists, cmdHasId, jobK, killCall, smVars, recVars, fnVars, escVars,
                   osVars, tabVars, startVars, monVars, stopVars, pcR>>

\* the UPDATE raises: force_kill_job answers 500
ForceKillMarkDbError ==
    /\ pcK = "marking"
    /\ pcK' = "failed"
    /\ UNCHANGED <<jobK, killCall, smVars, recVars, fnVars, escVars, dbVars, osVars, tabVars,
                   startVars, monVars, stopVars, pcR>>

\* ------------------------------------------- stop requests after a restart
\* The server has been restarted while ffmpeg processes of the previous run
\* (started in their own session, start_new_session=True) may still be alive:
\* the row is RUNNING with the pid persisted by the previous run, the runtime
\* tables are empty, and a process is identified by its pid
OrphanRows == {JobRec(RUNNING, 1, NoTime, p, NoMsg) : p \in PidArgs}

InitOrphan ==
    /\ SMIdle
    /\ db \in OrphanRows
    /\ cmdHasId \in BOOLEAN
    /\ SysQuiet
    /\ proc \in [Launches -> {"none", "alive"}]
    /\ kids \in [Launches -> BOOLEAN]
    /\ \A l \in Launches : kids[l] => proc[l] = "alive"
    /\ RecIdle
    /\ FnIdle

NextOrphan ==
    \/ \E l \in Launches : ProcExit(l)
    \/ \E l \in Launches : KidExit(l)
    \/ StopLoad
    \/ StopMarkWrite
    \/ StopMarkDbError
    \/ ForceKillLoad
    \/ ForceKillMarkWrite
    \/ ForceKillMarkDbError

\* ----------------------------------------------------- reset_job_status
\* the route reads the job and refuses RUNNING and PENDING (lines 1103-1123)
ResetLoad ==
    /\ pcR = "idle"
    /\ pcR' = IF dbExists /\ db.status \notin {RUNNING, PENDING}
              THEN "checked" ELSE "returned"
    /\ UNCHANGED <<smVars, recVars, fnVars, escVars, dbVars, osVars, tabVars, startVars, monVars, stopVars, killVars>>

\* job_manager.reset_job_status reads the job again and checks again
ResetReload ==
    /\ pcR = "checked"
    /\ pcR' = IF dbExists /\ db.status \notin {RUNNING, PENDING}
              THEN "updating" ELSE "returned"
    /\ UNCHANGED <<smVars, recVars, fnVars, escVars, dbVars, osVars, tabVars, startVars, monVars, stopVars, killVars>>

\* its UPDATE: status PENDING, error_message, stopped_at and pid NULL
ResetRow(row) ==
    [row EXCEPT !.status = PENDING, !.error_message = NoMsg,
                !.stopped_at = NoTime, !.pid = NoPid]

ResetWrite ==
    /\ pcR = "updating"
    /\ db' = IF dbExists THEN ResetRow(db) ELSE db
    /\ pcR' = "returned"
    /\ UNCHANGED <<dbExists, cmdHasId, smVars, recVars, fnVars, escVars, osVars, tabVars,
                   startVars, monVars, stopVars, killVars>>

Next ==
    \/ \E l \in Launches : ProcExit(l)
    \/ \E l \in Launches : KidExit(l)
    \/ \E l \in Launches : StartLoad(l)
    \/ \E l \in Launches : StartNoSpawn(l)
    \/ \E l \in Launches : StartHeaderFail(l)
    \/ \E l \in Launches : StartSpawned(l)
    \/ \E l \in Launches : StartMarkWrite(l)
    \/ \E l \in Launches : StartMarkDbError(l)
    \/ \E l \in Launches : MonBegin(l)
    \/ \E l \in Launches : MonLogOpenFail(l)
    \/ \E l \in Launches : MonExit(l)
    \/ \E l \in Launches : MonLogWriteFail(l)
    \/ \E l \in Launches : MonCbWrite(l)
    \/ \E l \in Launches : MonCbDbError(l)
    \/ \E l \in Launches : MonArchive(l)
    \/ \E l \in Launches : MonDelete(l)
    \/ StopLoad
    \/ StopAfterQuit
    \/ StopMarkWrite
    \/ StopMarkDbError
    \/ ResetLoad
    \/ ResetReload
    \/ ResetWrite

\* ------------------------------------------- one launch and its monitor task
\* the steps of the start_job request of launch l, and the steps of the
\* monitor task start_encoding created for it (asyncio.create_task, line 104)
StartSteps(l) ==
    \/ StartLoad(l)
    \/ StartNoSpawn(l)
    \/ StartHeaderFail(l)
    \/ StartSpawned(l)
    \/ StartMarkWrite(l)
    \/ StartMarkDbError(l)

MonitorSteps(l) ==
    \/ MonBegin(l)
    \/ MonLogOpenFail(l)
    \/ MonExit(l)
    \/ MonLogWriteFail(l)
    \/ MonCbWrite(l)
    \/ MonCbDbError(l)
    \/ MonArchive(l)
    \/ MonDelete(l)

\* one start request, the process it launches and that process's monitor
NextLive ==
    \/ ProcExit(1)
    \/ KidExit(1)
    \/ StartSteps(1)
    \/ MonitorSteps(1)

\* ------------------------------------------------- a restart after a stop
\* the client starts the job again once its stop request has been answered;
\* the monitor task of the stopped process may not have finished by then
StartAfterStop ==
    /\ pcS[1] \in {"done", "failed"}
    /\ pcT \in {"done", "failed"}
    /\ StartRead(2)

\* a start, a stop and a second start of the same job, one after the other,
\* with the monitor tasks of both launches
NextRelaunch ==
    \/ \E l \in Launches : ProcExit(l)
    \/ \E l \in Launches : KidExit(l)
    \/ StartLoad(1)
    \/ StartAfterStop
    \/ \E l \in Launches : StartNoSpawn(l)
    \/ \E l \in Launches : StartHeaderFail(l)
    \/ \E l \in Launches : StartSpawned(l)
    \/ \E l \in Launches : StartMarkWrite(l)
    \/ \E l \in Launches : StartMarkDbError(l)
    \/ \E l \in Launches : MonitorSteps(l)
    \/ StopLoad
    \/ StopAfterQuit
    \/ StopMarkWrite
    \/ StopMarkDbError

(***************************************************************************)
(* Startup recovery (main.lifespan.run_recovery, services/job_recovery.py) *)
(***************************************************************************)
\* rows the table can hold when the server starts: never started, stopped,
\* or RUNNING with the pid of a process that ended with the previous run
BootRows ==
    {Fresh, JobRec(STOPPED, 1, 1, NoPid, NoMsg), JobRec(RUNNING, 1, NoTime, 1, NoMsg)}

\* the pid of the process a restart in run r launches
NewPid(r) == r + 1

InitRec ==
    /\ SMIdle
    /\ db = Fresh
    /\ cmdHasId = FALSE
    /\ SysIdle
    /\ rdb \in [Jobs -> BootRows]
    /\ rAuto \in BOOLEAN
    /\ rRun = 1
    /\ rPc = "start"
    /\ rReturned = [r \in Runs |-> {}]
    /\ rStats = [r \in Runs |-> NoStats]
    /\ rLive = [j \in Jobs |-> FALSE]
    /\ rByRequest = {}
    /\ RecRunIdle
    /\ FnIdle

\* the row the callbacks of start_recovered_job persist when the restarted
\* process has ended: the job object that mark_job_running had set to
\* RUNNING, moved to COMPLETED or ERROR (which clears its pid)
ExitRow(st) == ApplyTransition(RunningRow(1), st, "err", NoPid, 1)

\* a restarted job's process ends by itself and the monitor calls back
RecProcExit(j) ==
    /\ rLive[j]
    /\ rLive' = [rLive EXCEPT ![j] = FALSE]
    /\ rByRequest' = rByRequest \ {j}
    /\ \E st \in {COMPLETED, ERROR} : rdb' = [rdb EXCEPT ![j] = ExitRow(st)]
    /\ UNCHANGED <<rAuto, rRun, rPc, rQueue, rReturned, rTodo, rAttempts,
                   rOutcome, rRestarted, rFailed, rStats, rCur, smVars, sysVars, fnVars, escVars>>

\* an UPDATE that leaves the pid column alone
RecoverRowKeepsPid(row) ==
    [row EXCEPT !.status = PENDING, !.started_at = NoTime,
                !.error_message = NoMsg]

\* the UPDATE of recover_running_jobs_on_restart (lines 383-391)
RecoverRow(row) ==
    [row EXCEPT !.status = PENDING, !.started_at = NoTime, !.pid = NoPid,
                !.error_message = NoMsg]

\* recover_running_jobs_on_restart: the SELECT of the rows marked RUNNING
RecFetch ==
    /\ rPc = "start"
    /\ rQueue' = {j \in Jobs : rdb[j].status = RUNNING}
    /\ rPc' = "resetting"
    /\ UNCHANGED <<rdb, rAuto, rRun, rReturned, rTodo, rAttempts, rOutcome,
                   rRestarted, rFailed, rStats, rLive, rCur, rByRequest,
                   smVars, sysVars, fnVars, escVars>>

\* the SELECT raises: the except branch returns []
RecFetchFail ==
    /\ rPc = "start"
    /\ rReturned' = [rReturned EXCEPT ![rRun] = {}]
    /\ rPc' = "returned"
    /\ UNCHANGED <<rdb, rAuto, rRun, rQueue, rTodo, rAttempts, rOutcome,
                   rRestarted, rFailed, rStats, rLive, rCur, rByRequest,
                   smVars, sysVars, fnVars, escVars>>

\* one turn of its loop: the row of job j is reset and j is appended
RecResetOne(j) ==
    /\ rPc = "resetting"
    /\ j \in rQueue
    /\ rdb' = [rdb EXCEPT ![j] = RecoverRow(@)]
    /\ rReturned' = [rReturned EXCEPT ![rRun] = @ \cup {j}]
    /\ rQueue' = rQueue \ {j}
    /\ UNCHANGED <<rAuto, rRun, rPc, rTodo, rAttempts, rOutcome, rRestarted,
                   rFailed, rStats, rLive, rCur, rByRequest,
                   smVars, sysVars, fnVars, escVars>>

\* an UPDATE raises: the rows reset so far stay reset, [] is returned
RecResetFail ==
    /\ rPc = "resetting"
    /\ rQueue # {}
    /\ rReturned' = [rReturned EXCEPT ![rRun] = {}]
    /\ rQueue' = {}
    /\ rPc' = "returned"
    /\ UNCHANGED <<rdb, rAuto, rRun, rTodo, rAttempts, rOutcome, rRestarted,
                   rFailed, rStats, rLive, rCur, rByRequest,
                   smVars, sysVars, fnVars, escVars>>

\* the loop is over: the list of recovered ids is returned
RecResetDone ==
    /\ rPc = "resetting"
    /\ rQueue = {}
    /\ rPc' = "returned"
    /\ UNCHANGED <<rdb, rAuto, rRun, rQueue, rReturned, rTodo, rAttempts,
                   rOutcome, rRestarted, rFailed, rStats, rLive, rCur, rByRequest,
                   smVars, sysVars, fnVars, escVars>>

\* the statistics dictionary of recover_with_auto_restart
Stats(recovered, restarted, failed) ==
    [returned |-> TRUE, recovered |-> recovered, restarted |-> restarted,
     failed |-> failed]

\* nothing was recovered: both entry points return zero at once
RecNothing ==
    /\ rPc = "returned"
    /\ rReturned[rRun] = {}
    /\ rStats' = [rStats EXCEPT ![rRun] = Stats(0, 0, 0)]
    /\ rPc' = "done"
    /\ UNCHANGED <<rdb, rAuto, rRun, rQueue, rReturned, rTodo, rAttempts,
                   rOutcome, rRestarted, rFailed, rLive, rCur, rByRequest,
                   smVars, sysVars, fnVars, escVars>>

\* recover_and_restart_jobs (auto-restart disabled): the recovered jobs found
\* PENDING are counted, none is started
RecManual ==
    /\ rPc = "returned"
    /\ rReturned[rRun] # {}
    /\ ~rAuto
    /\ rStats' = [rStats EXCEPT ![rRun] =
                     Stats(Cardinality({j \in rReturned[rRun] :
                                           rdb[j].status = PENDING}), 0, 0)]
    /\ rPc' = "done"
    /\ UNCHANGED <<rdb, rAuto, rRun, rQueue, rReturned, rTodo, rAttempts,
                   rOutcome, rRestarted, rFailed, rLive, rCur, rByRequest,
                   smVars, sysVars, fnVars, escVars>>

\* recover_with_auto_restart: ids deduplicated, 2 s sleep, the loop begins
RecAutoBegin ==
    /\ rPc = "returned"
    /\ rReturned[rRun] # {}
    /\ rAuto
    /\ rTodo' = rReturned[rRun]
    /\ rPc' = "restarting"
    /\ UNCHANGED <<rdb, rAuto, rRun, rQueue, rReturned, rAttempts, rOutcome,
                   rRestarted, rFailed, rStats, rLive, rCur, rByRequest,
                   smVars, sysVars, fnVars, escVars>>

\* the counters after an attempt: True counts as restarted, False and an
\* exception as failed (lines 315-322)
TallyRestarted(restarted, outcome) ==
    IF outcome = "restarted" THEN restarted + 1 ELSE restarted

\* a loop that counts a failure only in its except branch
TallyFailedOnlyRaised(failed, outcome) ==
    IF outcome = "raised" THEN failed + 1 ELSE failed

TallyFailed(failed, outcome) ==
    IF outcome = "restarted" THEN failed ELSE failed + 1

\* start_recovered_job(j) as the loop sees it.  "restarted": the process was
\* launched and mark_job_running persisted RUNNING with its pid.  "error":
\* the launch or a later step failed and mark_job_error persisted ERROR.
\* "untouched": it returned False before changing the row (job or
\* configuration missing, directories not created, or nothing could be
\* written).  "raised": an exception left the call, which the loop catches.
Outcomes(row) ==
    IF can_start(row) THEN {"restarted", "error", "untouched", "raised"}
    ELSE {"untouched", "raised"}

\* start_recovered_job(j) is called; step 1 and 2: stop_encoding on whatever
\* process the job still has, then the 30 s sleep
RecStopOrphans(j) ==
    /\ rPc = "restarting"
    /\ rCur = 0
    /\ j \in rTodo
    /\ rCur' = j
    /\ rAttempts' = [rAttempts EXCEPT ![j] = @ + 1]
    /\ IF rLive[j]
         THEN \E dies \in BOOLEAN, st \in {COMPLETED, ERROR} :
              /\ rLive' = [rLive EXCEPT ![j] = ~dies]
              /\ rdb' = [rdb EXCEPT ![j] = IF dies THEN ExitRow(st) ELSE @]
         ELSE UNCHANGED <<rdb, rLive>>
    /\ rByRequest' = {k \in rByRequest : rLive'[k]}
    /\ UNCHANGED <<rAuto, rRun, rPc, rQueue, rReturned, rTodo, rOutcome,
                   rRestarted, rFailed, rStats, smVars, sysVars, fnVars, escVars>>

\* the rest of start_recovered_job(j) and the loop's bookkeeping
RecAttempt(j) ==
    /\ rPc = "restarting"
    /\ rCur = j
    /\ \E outcome \in Outcomes(rdb[j]) :
        /\ rOutcome' = [rOutcome EXCEPT ![j] = outcome]
        /\ rdb' = [rdb EXCEPT ![j] =
                      CASE outcome = "restarted" ->
                               ApplyTransition(@, RUNNING, NoMsg, NewPid(rRun), 1)
                        [] outcome = "error" ->
                               ApplyTransition(@, ERROR, "Recovery failed", NoPid, 1)
                        [] OTHER -> @]
        /\ rLive' = [rLive EXCEPT ![j] = IF outcome = "restarted" THEN TRUE ELSE @]
        /\ rRestarted' = TallyRestarted(rRestarted, outcome)
        /\ rFailed' = TallyFailed(rFailed, outcome)
    /\ rTodo' = rTodo \ {j}
    /\ rByRequest' = IF rOutcome'[j] = "restarted" THEN rByRequest \ {j} ELSE rByRequest
    /\ rCur' = 0
    /\ UNCHANGED <<rAuto, rRun, rPc, rQueue, rReturned, rAttempts, rStats,
                   smVars, sysVars, fnVars, escVars>>

\* the loop is over: the statistics are returned
RecFinish ==
    /\ rPc = "restarting"
    /\ rTodo = {}
    /\ rStats' = [rStats EXCEPT ![rRun] =
                     Stats(Cardinality(rReturned[rRun]), rRestarted, rFailed)]
    /\ rPc' = "done"
    /\ UNCHANGED <<rdb, rAuto, rRun, rQueue, rReturned, rTodo, rAttempts,
                   rOutcome, rRestarted, rFailed, rLive, rCur, rByRequest,
                   smVars, sysVars, fnVars, escVars>>

\* recovery is run again in the same server process
RecAgain ==
    /\ rPc = "done"
    /\ rRun < MaxRuns
    /\ rRun' = rRun + 1
    /\ rPc' = "start"
    /\ rQueue' = {}
    /\ rTodo' = {}
    /\ rAttempts' = [j \in Jobs |-> 0]
    /\ rOutcome' = [j \in Jobs |-> "none"]
    /\ rRestarted' = 0
    /\ rFailed' = 0
    /\ UNCHANGED <<rdb, rAuto, rReturned, rStats, rLive, rCur, rByRequest,
                   smVars, sysVars, fnVars, escVars>>


\* a start_job request on job j served from beginning to end while the
\* recovery task, which main.lifespan runs in the background, is in one of
\* its sleeps (2 s before the loop, 30 s inside start_recovered_job, 10 s
\* between two jobs): the row it reads can be started, the process is
\* launched and mark_job_running persists RUNNING with its pid
RecUserStart(j) ==
    /\ \/ rPc = "restarting"
       \/ rPc = "returned" /\ rAuto /\ rReturned[rRun] # {}
    /\ can_start(rdb[j])
    /\ ~rLive[j]
    /\ rdb' = [rdb EXCEPT ![j] = ApplyTransition(@, RUNNING, NoMsg, NewPid(rRun), 1)]
    /\ rLive' = [rLive EXCEPT ![j] = TRUE]
    /\ rByRequest' = rByRequest \cup {j}
    /\ UNCHANGED <<rAuto, rRun, rPc, rQueue, rReturned, rTodo, rAttempts, rOutcome,
                   rRestarted, rFailed, rStats, rCur, smVars, sysVars, fnVars, escVars>>

NextRec ==
    \/ RecFetch
    \/ RecFetchFail
    \/ \E j \in Jobs : RecResetOne(j)
    \/ RecResetFail
    \/ RecResetDone
    \/ RecNothing
    \/ RecManual
    \/ RecAutoBegin
    \/ \E j \in Jobs : RecStopOrphans(j)
    \/ \E j \in Jobs : RecAttempt(j)
    \/ \E j \in Jobs : RecProcExit(j)
    \/ RecFinish
    \/ RecAgain

\* the server takes requests while the recovery task runs
NextServe ==
    \/ NextRec
    \/ \E j \in Jobs : RecUserStart(j)

\* ------------------------------------------------ the writers of a job row
\* One row of encoding_jobs and one EncodingJob loaded from it; the row is
\* written by transition (through the job object), by reset_job_status, by
\* recover_running_jobs_on_restart and by cleanup_orphaned_jobs, in any order.
WriterCall(outcome, to) ==
    [outcome |-> outcome, from |-> smDb.status, to |-> to, pid |-> NoPid,
     jobBefore |-> smJob, dbBefore |-> smDb]

\* get_job: the job object is built from the row
WriterLoad ==
    /\ smJob # smDb
    /\ smJob' = smDb
    /\ UNCHANGED <<smDb, smCall, smClock, sysVars, recVars, fnVars, escVars>>

\* job_manager.reset_job_status on a row that is neither RUNNING nor PENDING
WriterReset ==
    /\ smDb.status \notin {RUNNING, PENDING}
    /\ smDb' = ResetRow(smDb)
    /\ smCall' = WriterCall("reset", PENDING)
    /\ UNCHANGED <<smJob, smClock, sysVars, recVars, fnVars, escVars>>

\* recover_running_jobs_on_restart on a row it selected as RUNNING
WriterRecover ==
    /\ smDb.status = RUNNING
    /\ smDb' = RecoverRow(smDb)
    /\ smCall' = WriterCall("recovered", PENDING)
    /\ UNCHANGED <<smJob, smClock, sysVars, recVars, fnVars, escVars>>

\* an UPDATE that leaves the pid column alone
CleanupRowKeepsPid(row, timestamp, found) ==
    [row EXCEPT !.status = ERROR, !.stopped_at = timestamp,
                !.error_message = IF found THEN "Process died unexpectedly"
                                  ELSE "Process not found"]

\* the UPDATE of cleanup_orphaned_jobs (lines 320-349)
CleanupRow(row, timestamp, found) ==
    [row EXCEPT !.status = ERROR, !.stopped_at = timestamp, !.pid = NoPid,
                !.error_message = IF found THEN "Process died unexpectedly"
                                  ELSE "Process not found"]

\* cleanup_orphaned_jobs on a row it selected as RUNNING, whose pid is set
\* and names a process that is not running (found) or does not exist
WriterCleanup(found) ==
    /\ smClock <= MaxClock
    /\ smDb.status = RUNNING
    /\ TruthyPid(smDb.pid)
    /\ smDb' = CleanupRow(smDb, smClock, found)
    /\ smCall' = WriterCall("cleaned", ERROR)
    /\ smClock' = smClock + 1
    /\ UNCHANGED <<smJob, sysVars, recVars, fnVars, escVars>>

\* a job as create_job stores it
InitWriters ==
    /\ smJob = Fresh
    /\ smDb = Fresh
    /\ smCall = NoCall
    /\ smClock = 1
    /\ db = Fresh
    /\ cmdHasId = FALSE
    /\ SysIdle
    /\ RecIdle
    /\ FnIdle

NextWriters ==
    \/ SMNext
    \/ WriterLoad
    \/ WriterReset
    \/ WriterRecover
    \/ \E found \in BOOLEAN : WriterCleanup(found)

\* -------------------------------------------- start_recovered_job, one job
\* The restart of one recovered job at the grain of its awaits.  The process
\* it launches is launch Restarted; its orphan stop is stop_encoding call 1;
\* launch 1 is a start request of a client, which the server takes while the
\* recovery task runs.  sigLog also records the steps of the restart.
Restarted == MaxStarts

\* mark_job_error(job, msg) up to its UPDATE; a TransitionError ends the
\* restart with False
RecoveredError(l, job, msg) ==
    IF is_valid_transition(job.status, ERROR)
      THEN /\ jobS' = [jobS EXCEPT ![l] = ApplyTransition(job, ERROR, msg, NoPid, 1)]
           /\ pcS' = [pcS EXCEPT ![l] = "erroring"]
      ELSE /\ jobS' = [jobS EXCEPT ![l] = job]
           /\ pcS' = [pcS EXCEPT ![l] = "failed"]

\* STEP 4 for the job object read after the cooldown (lines 226-247), one
\* stretch after log: start_encoding fails before a process exists, or after
\* it registered the process, or succeeds; on success the pid is read from
\* active_processes and mark_job_running sets the fields
RecoveredLaunch(l, job, log) ==
    \/ /\ UNCHANGED <<proc, kids, pipeKids, tabVars, pcM>>
       /\ startCall' = [startCall EXCEPT ![l] =
                           [ret |-> "False", leftActive |-> FALSE, leftStats |-> FALSE]]
       /\ RecoveredError(l, job, "Failed to start FFmpeg process during recovery")
       /\ sigLog' = log
    \/ /\ \E k \in BOOLEAN, holds \in BOOLEAN : Spawned(l, k, holds)
       /\ active' = l
       /\ stats' = l
       /\ UNCHANGED pcM
       /\ startCall' = [startCall EXCEPT ![l] =
                           [ret |-> "False", leftActive |-> TRUE, leftStats |-> TRUE]]
       /\ RecoveredError(l, job, "Failed to start FFmpeg process during recovery")
       /\ sigLog' = Append(log, Event(l, "launch", {db.status}))
    \/ /\ \E k \in BOOLEAN, holds \in BOOLEAN : Spawned(l, k, holds)
       /\ active' = l
       /\ stats' = l
       /\ pcM' = [pcM EXCEPT ![l] = "created"]
       /\ startCall' = [startCall EXCEPT ![l] =
                           [ret |-> "True", leftActive |-> TRUE, leftStats |-> TRUE]]
       /\ jobS' = [jobS EXCEPT ![l] = ApplyTransition(job, RUNNING, NoMsg, active', 1)]
       /\ pcS' = [pcS EXCEPT ![l] = "marking"]
       /\ sigLog' = Append(log, Event(l, "launch", {db.status}))

\* STEP 1 is over (lines 102-109): stop_encoding has returned, or raised and
\* was caught; the 30 s sleep of STEP 2 begins
RecoveredStopped(l) ==
    /\ pcS[l] = "idle"
    /\ pcQ[1].at \in {"True", "False"}
    /\ pcS' = [pcS EXCEPT ![l] = "cooldown"]
    /\ sigLog' = Append(sigLog, Event(l, "stopped", {}))
    /\ UNCHANGED <<jobS, startCall, pcQ, smVars, recVars, fnVars, dbVars, osVars, tabVars,
                   monVars, stopVars, pcR, killVars>>

\* the sleep is over (lines 111-196): the job is read and can_start checked.
\* An HLS job has its directories rebuilt, which sleeps; any other output
\* goes on to STEP 4 without an await
RecoveredCheck(l) ==
    /\ pcS[l] = "cooldown"
    /\ IF ~dbExists \/ ~can_start(db)
         THEN /\ pcS' = [pcS EXCEPT ![l] = "failed"]
              /\ sigLog' = Append(sigLog, Event(l, "cooled", {}))
              /\ UNCHANGED <<jobS, startCall, osVars, tabVars, monVars>>
         ELSE \E hls \in BOOLEAN :
              IF hls
                THEN /\ jobS' = [jobS EXCEPT ![l] = db]
                     /\ pcS' = [pcS EXCEPT ![l] = "dirs"]
                     /\ sigLog' = Append(sigLog, Event(l, "cooled", {}))
                     /\ UNCHANGED <<startCall, osVars, tabVars, monVars>>
                ELSE /\ RecoveredLaunch(l, db, Append(sigLog, Event(l, "cooled", {})))
                     /\ UNCHANGED <<stdinClosed, cbComplete, cbError>>
    /\ UNCHANGED <<pcQ, smVars, recVars, fnVars, dbVars, stopVars, pcR, killVars>>

\* STEP 3 and 3.5 are over (lines 141-193): the base path is invalid
\* (mark_job_error), the directories cannot be created (False), or they are
\* there and STEP 4 runs
RecoveredDirs(l) ==
    /\ pcS[l] = "dirs"
    /\ \/ /\ RecoveredError(l, jobS[l], "Invalid HLS configuration: missing base_path")
          /\ UNCHANGED <<startCall, osVars, tabVars, monVars, sigLog>>
       \/ /\ pcS' = [pcS EXCEPT ![l] = "failed"]
          /\ UNCHANGED <<jobS, startCall, osVars, tabVars, monVars, sigLog>>
       \/ /\ RecoveredLaunch(l, jobS[l], Append(sigLog, Event(l, "dirs", {})))
          /\ UNCHANGED <<stdinClosed, cbComplete, cbError>>
    /\ UNCHANGED <<pcQ, smVars, recVars, fnVars, dbVars, stopVars, pcR, killVars>>

\* the UPDATE of mark_job_running commits; the row is read back and the
\* restart returns True (lines 249-262)
RecoveredMarkWrite(l) ==
    /\ pcS[l] = "marking"
    /\ db' = IF dbExists THEN jobS[l] ELSE db
    /\ pcS' = [pcS EXCEPT ![l] = "done"]
    /\ sigLog' = Append(sigLog, Event(l, "running", {}))
    /\ UNCHANGED <<dbExists, cmdHasId, jobS, startCall, pcQ, smVars, recVars, fnVars, osVars,
                   tabVars, monVars, stopVars, pcR, killVars>>

\* the UPDATE of mark_job_running raises (lines 264-274): the job is read
\* again and mark_job_error is called on it
RecoveredMarkDbError(l) ==
    /\ pcS[l] = "marking"
    /\ RecoveredError(l, db, "Recovery failed")
    /\ UNCHANGED <<startCall, escVars, smVars, recVars, fnVars, dbVars, osVars, tabVars,
                   monVars, stopVars, pcR, killVars>>

\* the UPDATE of mark_job_error commits or raises; the restart returns False
RecoveredErrorWrite(l) ==
    /\ pcS[l] = "erroring"
    /\ \E committed \in BOOLEAN :
           db' = IF committed /\ dbExists THEN jobS[l] ELSE db
    /\ pcS' = [pcS EXCEPT ![l] = "failed"]
    /\ UNCHANGED <<dbExists, cmdHasId, jobS, startCall, escVars, smVars, recVars, fnVars,
                   osVars, tabVars, monVars, stopVars, pcR, killVars>>

\* the job as recover_running_jobs_on_restart left it, nothing running yet
InitRestart ==
    /\ SMIdle
    /\ db = RecoverRow(RunningRow(1))
    /\ cmdHasId \in BOOLEAN
    /\ SysIdle
    /\ RecIdle
    /\ FnIdle

NextRestart ==
    \/ \E l \in Launches : ProcExit(l)
    \/ StopEncodingCall(1)
    \/ StopEncodingWaited(1)
    \/ RecoveredStopped(Restarted)
    \/ RecoveredCheck(Restarted)
    \/ RecoveredDirs(Restarted)
    \/ RecoveredMarkWrite(Restarted)
    \/ RecoveredMarkDbError(Restarted)
    \/ RecoveredErrorWrite(Restarted)
    \/ StartLoadAnyTime(1)
    \/ StartNoSpawn(1)
    \/ StartHeaderFail(1)
    \/ StartSpawned(1)
    \/ StartMarkWrite(1)
    \/ StartMarkDbError(1)

(***************************************************************************)
(* Properties of the job state machine, checked under SpecSM               *)
(***************************************************************************)
\* the pair of the last call of transition
CallPair == <<smCall.from, smCall.to>>

C3_RejectedChangesNothing ==
    smCall.outcome = "TransitionError" =>
        /\ smJob = smCall.jobBefore
        /\ smDb = smCall.dbBefore

\* a completed job with a pid on record was refused the move to STOPPED
C3_Witness ==
    /\ smCall.outcome = "TransitionError"
    /\ CallPair = <<COMPLETED, STOPPED>>
    /\ smJob.pid # NoPid

\* C39: when the UPDATE inside transition raises, the in-memory job keeps
\* the status, timestamps, pid and error_message it had before the call, so
\* the job object never shows a status that was not persisted
C39_DbErrorKeepsJob ==
    smCall.outcome = "DbError" =>
        /\ smJob = smCall.jobBefore
        /\ smJob.status = smDb.status

\* C21 as stated: a self-transition, transition(job, job.status), that
\* returns leaves started_at, stopped_at, pid and error_message of the job
\* and of the persisted record as they were, in each of the five states
C21_SelfTransitionNoOp ==
    (smCall.outcome = "ok" /\ smCall.from = smCall.to) =>
        /\ smJob = smCall.jobBefore
        /\ smDb = smCall.dbBefore

\* C22 as stated: after a transition to RUNNING that returns, whatever pid
\* the caller supplied (0 included), started_at is set, stopped_at and
\* error_message are cleared and pid is the supplied pid, in the job and in
\* the persisted record
C22_RunningStoresPid ==
    (smCall.outcome = "ok" /\ smCall.to = RUNNING /\ smCall.pid # NoPid) =>
        /\ smJob.started_at # NoTime
        /\ smJob.stopped_at = NoTime
        /\ smJob.error_message = NoMsg
        /\ smJob.pid = smCall.pid
        /\ smDb = smJob

(***************************************************************************)
(* Properties of one job under concurrent requests, checked under Spec     *)
(***************************************************************************)
\* C1 as stated: whenever stop_encoding returns True for a job that has a
\* runtime handle, no process of the launched tree (the launched process and
\* every descendant) is alive, on every return path
C1_TrueMeansTreeDead ==
    (stopCall.ret = "True" /\ stopCall.hadHandle) => ~stopCall.leftAlive

\* C4 as stated: every change of the persisted status is a pair allowed by
\* the transition table applied to the status persisted just before it, under
\* any interleaving of the stop request, the reset request and the monitor's
\* callback (no start request being in the middle of its own write)
C4_PersistedChangesAllowed ==
    [][(db'.status # db.status /\ \A l \in Launches : pcS[l] # "marking")
          => db'.status \in VALID_TRANSITIONS[db.status]]_vars

\* the job's row exists and holds status st
Persisted(st) == dbExists /\ db.status = st

\* C23 as stated: every step that moves the job's row to PENDING (here
\* job_manager.reset_job_status) leaves started_at, stopped_at, pid and
\* error_message of the row null
C23_PendingIsFullReset ==
    [][(db.status # PENDING /\ Persisted(PENDING)') =>
          /\ db'.started_at = NoTime
          /\ db'.stopped_at = NoTime
          /\ db'.pid = NoPid
          /\ db'.error_message = NoMsg]_vars

\* C24: mark_job_completed on a job with archive_on_complete persists
\* COMPLETED before it archives; the row is deleted only by the step that
\* follows an archive_job that reported success; when archiving fails or
\* raises, the row is left as it is and the callback returns like after a
\* success, with no on_error call
C24_ArchiveKeepsCompleted ==
    [][/\ \A l \in Launches :
            (pcM[l] = "cbwrite" /\ pcM'[l] = "archiving" /\ dbExists) =>
                Persisted(COMPLETED)'
       /\ (dbExists /\ ~dbExists') =>
            \E l \in Launches : pcM[l] = "deleting" /\ pcM'[l] = "done"
       /\ \A l \in Launches :
            (pcM[l] = "archiving" /\ pcM'[l] = "done") =>
                /\ db' = db
                /\ dbExists' = dbExists
                /\ cbError' = cbError]_vars

\* archive_job has reported success for a completed job whose row is still
\* there, persisted COMPLETED
C24_Witness ==
    \E l \in Launches :
        /\ pcM[l] = "deleting"
        /\ cbComplete[l] = 1
        /\ Persisted(COMPLETED)

\* launch l is the job's latest launch
LatestLaunch(l) == \A k \in Launches : k > l => pcS[k] = "idle"

\* C5: when stop_encoding is called right after start_encoding, before the
\* monitor task has observed the exit, then once both have finished the
\* launch's entry is gone from active_processes, and the job is never
\* persisted STOPPED while is_job_running is true, nor persisted RUNNING
\* once the stop request has succeeded
C5_StopRacesMonitor ==
    \A l \in Launches :
        (stopCall.raced /\ targetT = l) =>
            /\ (stopCall.ret # "none" /\ pcM[l] = "done") => active # l
            /\ LatestLaunch(l) =>
                  /\ ~(Persisted(STOPPED) /\ is_job_running(active, proc, db.pid))
                  /\ pcT = "done" => ~Persisted(RUNNING)

\* stop_encoding was called while the monitor was still waiting and gave up
\* with a descendant still alive; the monitor has finished since
C5_Witness ==
    /\ stopCall.raced
    /\ targetT = 1
    /\ stopCall.ret = "False"
    /\ pcM[1] = "done"
    /\ pcT = "failed"
    /\ active = 0

\* C37: after stop_job has succeeded for a RUNNING job the persisted status
\* stays STOPPED: the monitor task of the stopped process does not change
\* the row to ERROR or COMPLETED afterwards and does not archive and delete
\* the job
C37_StoppedIsFinal ==
    [][(pcT = "done" /\ targetT # 0 /\ MonitorSteps(targetT)) =>
           (db' = db /\ dbExists' = dbExists)]_vars

\* C6 as stated: whenever start_encoding returns False, active_processes and
\* job_stats hold no entry added by that call
C6_FalseLeavesNoEntry ==
    \A l \in Launches :
        startCall[l].ret = "False" =>
            ~startCall[l].leftActive /\ ~startCall[l].leftStats

\* C7 as stated: for every process launched by start_encoding, exactly one of
\* on_complete and on_error is invoked after its exit, exactly once: never
\* two calls, and one call once the process has exited and the monitor task,
\* if any, has ended
C7_ExactlyOneCallback ==
    \A l \in Launches :
        /\ cbComplete[l] + cbError[l] <= 1
        /\ (/\ proc[l] \in {"exit0", "exit1"}
            /\ startCall[l].ret # "none"
            /\ pcM[l] \in {"none", "done"})
              => cbComplete[l] + cbError[l] = 1

\* no operation on the job is in progress: every request has been answered,
\* and every monitor task has finished or is waiting for a process that is
\* still running
Quiescent ==
    /\ \A l \in Launches :
          /\ pcS[l] \in {"idle", "done", "failed"}
          /\ \/ pcM[l] \in {"none", "done"}
             \/ pcM[l] \in {"waiting", "waitingNoLog"} /\ proc[l] = "alive"
    /\ pcT \in {"idle", "done", "failed"}
    /\ pcR \in {"idle", "returned"}
    /\ pcK \in {"idle", "done", "failed"}

\* C15 as stated: in every state where no operation on the job is in
\* progress, the job has an entry in active_processes and in job_stats if and
\* only if its launched process is still running; in particular both entries
\* are gone after the process has exited by itself
C15_EntriesIffRunning ==
    Quiescent =>
        /\ active # 0 <=> (\E l \in Launches : proc[l] = "alive")
        /\ stats # 0 <=> (\E l \in Launches : proc[l] = "alive")

\* C17 as stated: whenever start_job reports failure, no process launched
\* by that call is left running and no runtime handle for it remains,
\* including when the failure comes after the spawn (mark_job_running fails)
C17_FailedStartLeavesNothing ==
    \A l \in Launches :
        pcS[l] = "failed" => proc[l] # "alive" /\ active # l

(***************************************************************************)
(* Properties of overlapping start requests, checked under SpecStarts      *)
(***************************************************************************)
\* the live processes launched by the supervisor for the job
LiveLaunches == {l \in Launches : proc[l] = "alive"}

\* C14 as stated: at any time at most one live process launched by the
\* supervisor exists for the job, and the runtime handle of the job refers to
\* it, under any interleaving of start requests on the same job
C14_OneLiveProcess ==
    /\ Cardinality(LiveLaunches) <= 1
    /\ \A l \in LiveLaunches : active = l

\* a step of recover_running_jobs_on_restart
InReset == rPc \in {"start", "resetting"}

\* C29: recover_running_jobs_on_restart changes exactly the rows persisted
\* RUNNING (status PENDING; pid, started_at and error_message null) and no
\* other row, and returns exactly the ids of the rows it changed, each once:
\* a row it changes was RUNNING and is appended to the list as it is changed,
\* and when it returns no RUNNING row is left and the list is what it returns
C29_ResetsExactlyRunning ==
    [][InReset =>
        /\ \A j \in Jobs :
               rdb'[j] # rdb[j] =>
                   /\ rdb[j].status = RUNNING
                   /\ rdb'[j] = [rdb[j] EXCEPT !.status = PENDING, !.pid = NoPid,
                                               !.started_at = NoTime,
                                               !.error_message = NoMsg]
                   /\ rReturned'[rRun] = rReturned[rRun] \cup {j}
                   /\ j \notin rReturned[rRun]
        /\ rPc' = "returned" =>
               /\ \A j \in Jobs : rdb'[j].status # RUNNING
               /\ rReturned'[rRun] = rReturned[rRun]]_vars

(***************************************************************************)
(* Properties of the restart of one recovered job, checked under           *)
(* SpecRestart                                                             *)
(***************************************************************************)
\* the steps of the restart that sigLog holds, in the order they were taken
RestartSteps ==
    SelectSeq(sigLog, LAMBDA e : e.ev \in {"stopped", "cooled", "dirs", "launch", "running"})

StepRank(ev) ==
    CASE ev = "stopped" -> 1
      [] ev = "cooled" -> 2
      [] ev = "dirs" -> 3
      [] ev = "launch" -> 4
      [] ev = "running" -> 5

\* each step is taken once and after the steps that come before it; a launch
\* has the orphan stop and the cooldown before it, marking RUNNING has a launch
StepsInOrder ==
    /\ \A i, k \in 1..Len(RestartSteps) :
           i < k => StepRank(RestartSteps[i].ev) < StepRank(RestartSteps[k].ev)
    /\ \A i \in 1..Len(RestartSteps) :
           /\ RestartSteps[i].ev = "launch" =>
                  i >= 3 /\ RestartSteps[1].ev = "stopped" /\ RestartSteps[2].ev = "cooled"
           /\ RestartSteps[i].ev = "running" =>
                  i >= 2 /\ RestartSteps[i - 1].ev = "launch"

\* every launch of the restart found the job persisted in a status from
\* which it can be started
LaunchedOnlyStartable ==
    \A i \in 1..Len(RestartSteps) :
        RestartSteps[i].ev = "launch" =>
            RestartSteps[i].to \subseteq {PENDING, STOPPED, ERROR, COMPLETED}

\* the step by which the restart returns True leaves the row RUNNING with
\* the pid of the process the restart launched
CountedIsRunning ==
    (pcS[Restarted] # "done" /\ pcS'[Restarted] = "done") =>
        /\ proc[Restarted] # "none"
        /\ db'.status = RUNNING
        /\ db'.pid = Restarted

\* C28: start_recovered_job takes its steps in the order orphan stop,
\* cooldown, directory rebuild, launch, marking RUNNING; it launches no
\* process for a job whose status does not allow starting; a job it reports
\* restarted is persisted RUNNING with the pid of the process it launched
C28_RestartInOrder ==
    [][StepsInOrder' /\ LaunchedOnlyStartable' /\ CountedIsRunning]_vars

(***************************************************************************)
(* Properties of overlapping stop_encoding calls, checked under SpecStops  *)
(***************************************************************************)
\* the places of sigLog where something of kind ev was done
Logged(ev) == {i \in 1..Len(sigLog) : sigLog[i].ev = ev}

\* C25 as stated: for a job with a runtime handle and any interleaving of
\* stop_encoding calls, the quit token is written before any termination
\* signal; a termination signal is sent only after a 2-second wait has
\* expired with the process alive; a kill signal goes only to members that
\* were alive after the wait that followed the termination signal of the
\* same call
C25_EscalationInOrder ==
    /\ \A i \in Logged("terminate") : \E j \in Logged("quit") : j < i
    /\ \A i \in Logged("terminate") : \E j \in Logged("expired") : j < i
    /\ \A i \in Logged("kill") :
          /\ i > 1
          /\ sigLog[i - 1].ev = "terminate"
          /\ sigLog[i - 1].call = sigLog[i].call
          /\ sigLog[i].to \subseteq sigLog[i - 1].to

\* call c of stop_encoding is made in this step
StopCalled(c) == pcQ[c].at = "idle" /\ pcQ'[c].at # "idle"

\* C40: stop_encoding on a job that has no runtime handle and for which no
\* live ffmpeg process matches, by persisted pid or by command line (a second
\* stop after a successful one), returns False and leaves active_processes
\* and job_stats unchanged
C40_NothingToStopIsFalse ==
    [][\A c \in Callers :
          (StopCalled(c) /\ active = 0 /\ ~is_job_running(active, proc, db.pid)) =>
              /\ pcQ'[c].at = "False"
              /\ active' = active
              /\ stats' = stats]_vars

\* the first call stopped the process of launch 1 and removed its handle;
\* the second call found no handle and nothing to kill
C40_Witness ==
    /\ pcQ[1] = [at |-> "True", target |-> 1]
    /\ pcQ[2] = [at |-> "False", target |-> 0]
    /\ db.pid = 1
    /\ proc[1] \in {"exit0", "exit1"}
    /\ ~kids[1]
    /\ active = 0

C12_ForceKillTrueMeansDead ==
    (stopCall.ret = "True" /\ ~stopCall.hadHandle) => ~stopCall.leftAlive

\* C13 as stated: the persisted status becomes STOPPED (stop_job and
\* force_kill_job are the only writers of STOPPED), and the runtime handle is
\* removed by one of the two requests, only if no process of the job is still
\* running.  A process of the job is counted only when the supervisor can
\* tell it is one: by the handle, by the pid persisted before the write, or
\* by the job id in its command line
C13_StoppedOnlyWhenDead ==
    [][/\ (~Persisted(STOPPED) /\ Persisted(STOPPED)')
              => ~is_job_running(active, proc', db.pid)
       /\ (active # 0 /\ active' = 0 /\ (pcT' # pcT \/ pcK' # pcK))
              => ~is_job_running(active, proc', db.pid)]_vars

(***************************************************************************)
(* Properties of startup recovery, checked under SpecRec                   *)
(***************************************************************************)
\* C8 as stated: running startup recovery twice in a row, nothing having
\* happened in between, recovers zero jobs on the second run
C8_SecondRunRecoversNone ==
    \A r \in Runs : (r > 1 /\ rStats[r].returned) => rStats[r].recovered = 0

\* the ids the reset step returned in the run now under way
Recovered == rReturned[rRun]

C10_OneAttemptEach ==
    (rAuto /\ rPc = "done") =>
        /\ \A j \in Jobs : rAttempts[j] = (IF j \in Recovered THEN 1 ELSE 0)
        /\ rStats[rRun].recovered = Cardinality(Recovered)
        /\ rStats[rRun].recovered = rStats[rRun].restarted + rStats[rRun].failed

\* a run has returned its statistics after one attempt failed and another
\* one succeeded
C10_Witness ==
    /\ rAuto
    /\ rPc = "done"
    /\ \E j \in Recovered : rOutcome[j] = "error"
    /\ \E j \in Recovered : rOutcome[j] = "restarted"
    /\ rStats[rRun].restarted = 1
    /\ rStats[rRun].failed = 1

(***************************************************************************)
(* Recovery next to requests, checked under SpecServe                      *)
(***************************************************************************)
\* C16 as stated: recovery never resets, stops or relaunches a job whose
\* process was launched in the current run: no step of the recovery task
\* resets the row of such a job, begins start_recovered_job on it (whose
\* first step is stop_encoding), or ends start_recovered_job with a launch
C16_RecoverySparesCurrentRun ==
    [][\A j \in rByRequest :
          rLive[j] =>
             /\ ~(rRun' = rRun /\ j \in rReturned'[rRun] \ rReturned[rRun])
             /\ ~(rCur = 0 /\ rCur' = j)
             /\ ~(rCur = j /\ rCur' = 0 /\ rOutcome'[j] = "restarted")]_vars

(***************************************************************************)
(* is_job_running as a function of what it reads                           *)
(***************************************************************************)
\* everything but the function-call variables at rest
RestIdle ==
    /\ SMIdle
    /\ db = Fresh
    /\ cmdHasId = FALSE
    /\ SysIdle
    /\ RecIdle

Absent == [name |-> "absent", cmdline |-> "none"]

\* what one pid can be: no process, or a process with a name and a command
\* line (None or empty, without the job id, with it)
PidSlots ==
    {Absent} \cup [name : {"ffmpeg", "ffmpeg-static", "bash"},
                   cmdline : {"none", "other", "job_id"}]

TableOf(slots) ==
    {[pid |-> i, name |-> slots[i].name, cmdline |-> slots[i].cmdline] :
        i \in {k \in 1..MaxPid : slots[k] # Absent}}

InitRunning ==
    /\ RestIdle
    /\ fnIn \in {[handle |-> h, pid |-> p, table |-> TableOf(slots)] :
                    h \in {"none", "running", "exited"}, p \in PidArgs,
                    slots \in [1..MaxPid -> PidSlots]}
    /\ fnOut = NoReturn

CallIsJobRunning ==
    /\ ~fnOut.returned
    /\ fnOut' = Return(is_job_running_in(fnIn.handle, fnIn.pid, fnIn.table))
    /\ UNCHANGED <<fnIn, smVars, sysVars, recVars, escVars>>

NextRunning == CallIsJobRunning

RECURSIVE Ancestors(_, _)
Ancestors(q, parent) ==
    IF parent[q] = 0 THEN {}
    ELSE {parent[q]} \cup Ancestors(parent[q], parent)

\* psutil's children(recursive=True)
Children(p, parent) == {q \in DOMAIN parent : p \in Ancestors(q, parent)}

\* the processes strategy 2 matches (lines 397-401): an ffmpeg name and the
\* job id in the command line
Scanned(table) ==
    {q.pid : q \in {r \in table : NameIsFfmpeg(r.name) /\ r.cmdline = "job_id"}}

\* strategy 1 without the check of the name
KillsByPidUnverified(pid, table, denied) ==
    TruthyPid(pid) /\ ~denied /\ \E q \in table : q.pid = pid

\* strategy 1 is taken to the kill (lines 360-367): the pid is set, names a
\* process, reading its name does not raise and the name is an ffmpeg name
KillsByPid(pid, table, denied) ==
    TruthyPid(pid) /\ ~denied /\ \E q \in table : q.pid = pid /\ NameIsFfmpeg(q.name)

\* the processes the call sends a kill signal to: by strategy 1 the process
\* of the pid and its descendants, and then it returns; otherwise by strategy
\* 2 every matched process and its descendants
force_kill_in(pid, table, parent, denied) ==
    IF KillsByPid(pid, table, denied)
      THEN [direct |-> {pid}, scanned |-> {},
            killed |-> {pid} \cup Children(pid, parent)]
      ELSE [direct |-> {}, scanned |-> Scanned(table),
            killed |-> Scanned(table) \cup
                       UNION {Children(q, parent) : q \in Scanned(table)}]

CallForceKill ==
    /\ ~fnOut.returned
    /\ fnIn.fn = "_force_kill_by_job_id"
    /\ fnOut' = Return(force_kill_in(fnIn.pid, fnIn.table, fnIn.parent, fnIn.denied))
    /\ UNCHANGED <<fnIn, smVars, sysVars, recVars, escVars>>

NextKill == CallForceKill

\* the parents the processes of slots can have: a process is started by a
\* process with a smaller pid
Forests(slots) ==
    {f \in [1..MaxPid -> 0..MaxPid] :
        \A q \in 1..MaxPid :
            /\ f[q] < q
            /\ f[q] # 0 => slots[q] # Absent /\ slots[f[q]] # Absent}

\* process tables with the descendants of each process; denied: reading the
\* name of the pid's process raises (AccessDenied)
InitKill ==
    /\ RestIdle
    /\ fnIn \in UNION {{[fn |-> "_force_kill_by_job_id", pid |-> p,
                         table |-> TableOf(slots), parent |-> par, denied |-> d] :
                           p \in PidArgs, par \in Forests(slots), d \in BOOLEAN} :
                       slots \in [1..MaxPid -> PidSlots]}
    /\ fnOut = NoReturn

\* the process of the persisted pid, when there is one
PidProcess == {q \in fnIn.table : q.pid = fnIn.pid}

OwnedSlots ==
    {[name |-> "absent", cmdline |-> "none", owner |-> "none"]} \cup
    [name : {"ffmpeg", "bash"}, cmdline : {"other", "job_id"}, owner : {"A", "B"}]

OwnedTable(slots) ==
    {[pid |-> i, name |-> slots[i].name, cmdline |-> slots[i].cmdline,
      owner |-> slots[i].owner] :
        i \in {k \in 1..MaxPid : slots[k].name # "absent"}}

\* the parents the processes of slots can have: a process is started by a
\* process with a smaller pid, and a descendant belongs to the job of the
\* process that started it
OwnedForests(slots) ==
    {f \in [1..MaxPid -> 0..MaxPid] :
        \A q \in 1..MaxPid :
            /\ f[q] < q
            /\ f[q] # 0 => /\ slots[q].name # "absent"
                           /\ slots[f[q]].name # "absent"
                           /\ slots[q].owner = slots[f[q]].owner}

\* stop_encoding(A, pid) when A is not in active_processes (lines 237-241):
\* it returns what _force_kill_by_job_id does
stop_encoding_unregistered(pid, table, parent, denied) ==
    force_kill_in(pid, table, parent, denied)

OwnerFns == {"stop_encoding", "_force_kill_by_job_id", "is_job_running"}

\* the calls for job A, which has no runtime handle
InitOwner ==
    /\ RestIdle
    /\ fnIn \in UNION {{[fn |-> f, pid |-> p, table |-> OwnedTable(slots),
                         parent |-> par, denied |-> d] :
                           f \in OwnerFns, p \in PidArgs,
                           par \in OwnedForests(slots), d \in BOOLEAN} :
                       slots \in [1..MaxPid -> OwnedSlots]}
    /\ fnOut = NoReturn

CallForJobA ==
    /\ ~fnOut.returned
    /\ fnOut' =
         Return(CASE fnIn.fn = "stop_encoding" ->
                       stop_encoding_unregistered(fnIn.pid, fnIn.table,
                                                  fnIn.parent, fnIn.denied)
                  [] fnIn.fn = "_force_kill_by_job_id" ->
                       force_kill_in(fnIn.pid, fnIn.table, fnIn.parent, fnIn.denied)
                  [] fnIn.fn = "is_job_running" ->
                       [counted |-> is_job_running_in("none", fnIn.pid, fnIn.table)])
    /\ UNCHANGED <<fnIn, smVars, sysVars, recVars, escVars>>

NextOwner == CallForJobA

\* the pids of the processes launched for a job
OwnedBy(job) == {q.pid : q \in {r \in fnIn.table : r.owner = job}}

\* C36: stop_encoding, _force_kill_by_job_id and is_job_running for job A
\* never signal or count as A's a process launched for another job B, also
\* when B's command line contains A's job id
C36_OnlyOwnProcesses ==
    fnOut.returned =>
        IF fnIn.fn = "is_job_running"
          THEN fnOut.value.counted => OwnedBy("A") # {}
          ELSE fnOut.value.killed \cap OwnedBy("B") = {}

(***************************************************************************)
(* The argument builder (services/ffmpeg/command_builder.py)               *)
(***************************************************************************)
\* An argument list is a sequence of options: a flag with the value that
\* follows it ("" when the flag stands alone), or a positional argument,
\* which is an output destination.  Strings the code builds with f-strings
\* are kept as the parts they are built from.
None == "None"
Arg(flag, value) == [flag |-> flag, value |-> value]
Flag(flag) == Arg(flag, "")
Positional(dest) == Arg("output", dest)

Flags(cmd) == {cmd[i].flag : i \in 1..Len(cmd)}
Outputs(cmd) == SelectSeq(cmd, LAMBDA a : a.flag = "output")

\* a bitrate string: a number with one decimal at most, then its suffix
Rate(tenths, unit) == [tenths |-> tenths, unit |-> unit]
NoRate == Rate(0, None)

\* the buffer size computed from a bitrate, int(float(number) * 2) with the
\* suffix kept (lines 563-571 and 779-786)
DoubleRate(r) == Rate(((r.tenths * 2) \div 10) * 10, r.unit)

\* only the suffixes M and k are cut off before the number is parsed: with
\* any other suffix int(bitrate_val) raises ValueError
DoubleRateRaises(r) == r.unit \notin {"M", "k", ""}

\* whether computing -bufsize for a rendition raises: the HLS variant
\* computes it when buffer_size is not set, the UDP variant always
BufsizeRaises(rendition, is_hls) ==
    /\ ~(is_hls /\ rendition.buffer_size # NoRate)
    /\ DoubleRateRaises(rendition.video_bitrate)

\* a UDP destination udp://address:port?ttl=..&pkt_size=..
Udp(address, port) == [address |-> address, port |-> port, ttl |-> 16, pkt_size |-> 1316]
NoUrl == Udp(None, 0)

\* HLSOutput with its defaults (segment_duration 6, segment_%03d.ts,
\* master.m3u8, playlist_size 5)
HLSOutput(output_dir, segment_type, playlist_type, abr_enabled, renditions) ==
    [output_dir |-> output_dir, playlist_name |-> "master.m3u8",
     segment_duration |-> 6, segment_pattern |-> "segment_%03d.ts",
     playlist_type |-> playlist_type, playlist_size |-> 5,
     segment_type |-> segment_type, abr_enabled |-> abr_enabled,
     renditions |-> renditions]

\* the value of hls_output when the request has none
NoHls == HLSOutput(None, "mpegts", "live", FALSE, <<>>)

\* codec_map: the hardware encoder that replaces a software codec
HwCodec(hardware_accel, codec) ==
    LET family == CASE codec \in {"h264", "libx264"} -> "h264"
                    [] codec \in {"h265", "libx265"} -> "hevc"
                    [] codec \in {"av1", "libaom-av1"} -> "av1"
                    [] OTHER -> None
    IN  IF hardware_accel \notin {"nvenc", "vaapi", "videotoolbox"} THEN codec
        ELSE IF family = None THEN codec
        ELSE IF hardware_accel = "videotoolbox" /\ family = "av1" THEN codec
        ELSE IF family = "h264" THEN
                 CASE hardware_accel = "nvenc" -> "h264_nvenc"
                   [] hardware_accel = "vaapi" -> "h264_vaapi"
                   [] OTHER -> "h264_videotoolbox"
        ELSE IF family = "hevc" THEN
                 CASE hardware_accel = "nvenc" -> "hevc_nvenc"
                   [] hardware_accel = "vaapi" -> "hevc_vaapi"
                   [] OTHER -> "hevc_videotoolbox"
        ELSE IF hardware_accel = "nvenc" THEN "av1_nvenc" ELSE "av1_vaapi"

\* "hevc" in video_codec.lower() or "265" in video_codec.lower()
IsHevc(codec) ==
    codec \in {"h265", "libx265", "hevc_nvenc", "hevc_vaapi", "hevc_videotoolbox"}

HwUsed(request) == request.hardware_accel \notin {None, "none"}

\* the options every builder puts before and right after the input
HwaccelArgs(request) ==
    CASE request.hardware_accel = "nvenc" -> <<Arg("-hwaccel", "cuda")>>
      [] request.hardware_accel = "vaapi" -> <<Arg("-hwaccel", "vaapi")>>
      [] request.hardware_accel = "videotoolbox" -> <<Arg("-hwaccel", "videotoolbox")>>
      [] OTHER -> <<>>

InputArgs(request) ==
    HwaccelArgs(request)
    \o (IF request.loop_input THEN <<Arg("-stream_loop", "-1"), Flag("-re")>> ELSE <<>>)
    \o (IF request.input_format # None THEN <<Arg("-f", request.input_format)>> ELSE <<>>)
    \o request.input_args
    \o <<Arg("-i", request.input_file)>>

\* fps = request.video_framerate or 30; gop_size = fps * 2
AvfoundationArgs(request) ==
    LET fps == IF request.video_framerate # 0 THEN request.video_framerate ELSE 30
        gop_size == fps * 2
    IN  <<Arg("-vsync", "cfr"), Arg("-copytb", "1"), Flag("-start_at_zero"),
          Arg("-g", gop_size), Arg("-keyint_min", gop_size)>>

\* the track a stream map with the given label selects, the last one winning
RECURSIVE TrackOf(_, _, _)
TrackOf(stream_maps, label, default) ==
    IF stream_maps = <<>> THEN default
    ELSE LET last == stream_maps[Len(stream_maps)] IN
         IF last.output_label = label THEN last.input_stream
         ELSE TrackOf(SubSeq(stream_maps, 1, Len(stream_maps) - 1), label, default)

\* generate_split_and_scale_filters: the filter graph as its stages, one
\* split with a label [v0]..[vN-1] per rendition, then per rendition one
\* scale from [v<i>] to [v<name>]
generate_split_and_scale_filters(renditions, video_input) ==
    LET num_variants == Len(renditions) IN
    <<[op |-> "split", input |-> video_input, n |-> num_variants,
       outputs |-> [i \in 1..num_variants |-> i - 1]]>>
    \o [i \in 1..num_variants |->
          [op |-> "scale", input |-> i - 1, n |-> 1,
           outputs |-> <<renditions[i].name>>,
           size |-> renditions[i].video_resolution]]

\* the per-variant options both ABR builders emit in this order between the
\* two -map options and the output format
VariantCodecArgs(rendition, hardware_accel, is_hls) ==
    LET chosen == IF rendition.video_codec # None THEN rendition.video_codec ELSE "libx264"
        video_codec == HwCodec(hardware_accel, chosen)
    IN  <<Arg("-c:v", video_codec)>>
        \o (IF is_hls /\ IsHevc(video_codec) THEN <<Arg("-tag:v", "hvc1")>> ELSE <<>>)
        \o <<Arg("-b:v", rendition.video_bitrate)>>
        \o (IF is_hls /\ rendition.max_bitrate # NoRate
              THEN <<Arg("-maxrate", rendition.max_bitrate)>>
              ELSE <<Arg("-maxrate", rendition.video_bitrate)>>)
        \o (IF is_hls /\ rendition.buffer_size # NoRate
              THEN <<Arg("-bufsize", rendition.buffer_size)>>
              ELSE <<Arg("-bufsize", DoubleRate(rendition.video_bitrate))>>)
        \o (IF rendition.video_profile # None
              THEN <<Arg("-profile:v", rendition.video_profile)>> ELSE <<>>)
        \o <<Arg("-preset", IF rendition.preset # None THEN rendition.preset ELSE "medium")>>
        \o (IF rendition.video_framerate # 0
              THEN <<Arg("-r", rendition.video_framerate)>> ELSE <<>>)
        \o <<Arg("-c:a", IF rendition.audio_codec # None THEN rendition.audio_codec ELSE "aac")>>
        \o (IF rendition.audio_bitrate # NoRate
              THEN <<Arg("-b:a", rendition.audio_bitrate)>> ELSE <<>>)
        \o (IF rendition.audio_channels # 0
              THEN <<Arg("-ac", rendition.audio_channels)>> ELSE <<>>)
        \o (IF rendition.audio_sample_rate # 0
              THEN <<Arg("-ar", rendition.audio_sample_rate)>> ELSE <<>>)
        \o (IF rendition.audio_volume \notin {-1, 100}
              THEN <<Arg("-af", rendition.audio_volume)>> ELSE <<>>)

\* the HLS options of one output: segment type, playlist type
HlsFormatArgs(hls) ==
    <<Arg("-f", "hls"), Arg("-hls_time", hls.segment_duration),
      Arg("-hls_segment_type", hls.segment_type)>>
    \o (IF hls.segment_type = "fmp4"
          THEN <<Arg("-hls_fmp4_init_filename", "init.mp4")>> ELSE <<>>)
    \o (CASE hls.playlist_type = "live" ->
                <<Arg("-hls_list_size", hls.playlist_size),
                  Arg("-hls_flags", "delete_segments")>>
          [] hls.playlist_type = "event" -> <<Arg("-hls_playlist_type", "event")>>
          [] OTHER -> <<Arg("-hls_playlist_type", "vod")>>)

\* a path below the HLS output directory
HlsPath(output_dir, sub, file) == [dir |-> output_dir, sub |-> sub, file |-> file]

build_variant_output(rendition, hls, hardware_accel, audio_input) ==
    <<Arg("-map", rendition.name), Arg("-map", audio_input)>>
    \o VariantCodecArgs(rendition, hardware_accel, TRUE)
    \o HlsFormatArgs(hls)
    \o <<Arg("-hls_segment_filename",
             HlsPath(hls.output_dir, rendition.name, hls.segment_pattern)),
         Positional(HlsPath(hls.output_dir, rendition.name, "index.m3u8"))>>

RECURSIVE HlsVariants(_, _, _, _)
HlsVariants(renditions, hls, hardware_accel, audio_input) ==
    IF renditions = <<>> THEN <<>>
    ELSE build_variant_output(Head(renditions), hls, hardware_accel, audio_input)
         \o HlsVariants(Tail(renditions), hls, hardware_accel, audio_input)

\* the result of a builder: the argument list, or the exception it raised
Built(cmd) == [raised |-> None, cmd |-> cmd]
Raised(exc) == [raised |-> exc, cmd |-> <<>>]

AbrHead(request, renditions) ==
    <<Flag("ffmpeg")>>
    \o InputArgs(request)
    \o (IF request.input_format = "avfoundation" THEN AvfoundationArgs(request) ELSE <<>>)
    \o <<Arg("-filter_complex",
             generate_split_and_scale_filters(renditions,
                 TrackOf(request.stream_maps, "v", "0:v")))>>

build_abr_hls_command(request, renditions) ==
    IF \E i \in 1..Len(renditions) : BufsizeRaises(renditions[i], TRUE)
      THEN Raised("ValueError")
      ELSE Built(AbrHead(request, renditions)
                 \o HlsVariants(renditions, request.hls_output, request.hardware_accel,
                                TrackOf(request.stream_maps, "a", "0:a?")))

\* the destination of variant idx (counted from 0): its own output_url, or
\* the base address with the port base_port + idx
UdpUrl(rendition, idx, base_udp) ==
    IF rendition.output_url # NoUrl THEN rendition.output_url
    ELSE [base_udp EXCEPT !.port = base_udp.port + idx]

UdpVariant(rendition, idx, request, base_udp, audio_input) ==
    <<Arg("-map", rendition.name), Arg("-map", audio_input)>>
    \o VariantCodecArgs(rendition, request.hardware_accel, FALSE)
    \o <<Arg("-f", "mpegts"), Positional(UdpUrl(rendition, idx, base_udp))>>

RECURSIVE UdpVariants(_, _, _, _, _)
UdpVariants(renditions, idx, request, base_udp, audio_input) ==
    IF renditions = <<>> THEN <<>>
    ELSE UdpVariant(Head(renditions), idx, request, base_udp, audio_input)
         \o UdpVariants(Tail(renditions), idx + 1, request, base_udp, audio_input)

build_abr_udp_command(request, renditions) ==
    LET base_udp == IF request.udp_outputs # <<>> THEN request.udp_outputs[1] ELSE NoUrl IN
    IF \E i \in 1..Len(renditions) :
           \/ renditions[i].output_url = NoUrl /\ base_udp = NoUrl
           \/ BufsizeRaises(renditions[i], FALSE)
      THEN Raised("ValueError")
      ELSE Built(AbrHead(request, renditions)
                 \o UdpVariants(renditions, 0, request, base_udp,
                                TrackOf(request.stream_maps, "a", "0:a?")))

\* ---------------------------------------------------- build_ffmpeg_command
\* one -map per stream map, in order (lines 80-86)
RECURSIVE MapArgs(_)
MapArgs(stream_maps) ==
    IF stream_maps = <<>> THEN <<>>
    ELSE <<Arg("-map", Head(stream_maps).input_stream)>> \o MapArgs(Tail(stream_maps))

has_audio_map(stream_maps) ==
    \E i \in 1..Len(stream_maps) : stream_maps[i].output_label = "a"

\* video options with the preset defaulted to medium
VideoArgsDefaultPreset(request) ==
    <<Arg("-c:v", request.video_codec), Arg("-preset", "medium")>>

\* the video options of the standard command (lines 102-160)
VideoArgs(request) ==
    LET video_codec == IF HwUsed(request)
                         THEN HwCodec(request.hardware_accel, request.video_codec)
                         ELSE request.video_codec
    IN  <<Arg("-c:v", video_codec)>>
        \o (IF IsHevc(video_codec) THEN <<Arg("-tag:v", "hvc1")>> ELSE <<>>)
        \o (IF request.video_bitrate # NoRate
              THEN <<Arg("-b:v", request.video_bitrate)>> ELSE <<>>)
        \o (IF request.video_profile # None
              THEN <<Arg("-profile:v", request.video_profile)>> ELSE <<>>)
        \o (IF request.video_framerate # 0
              THEN <<Arg("-r", request.video_framerate)>> ELSE <<>>)
        \o (IF request.encoding_preset # None
              THEN <<Arg("-preset", request.encoding_preset)>> ELSE <<>>)
        \o (IF request.video_resolution # None \/ request.video_filters # None
              THEN <<Arg("-vf", <<request.video_resolution, request.video_filters>>)>>
              ELSE <<>>)

\* the audio options (lines 164-185): -an when stream maps select no audio
AudioArgs(request) ==
    IF request.stream_maps # <<>> /\ ~has_audio_map(request.stream_maps)
      THEN <<Flag("-an")>>
      ELSE <<Arg("-c:a", request.audio_codec)>>
           \o (IF request.audio_bitrate # NoRate
                 THEN <<Arg("-b:a", request.audio_bitrate)>> ELSE <<>>)
           \o (IF request.audio_channels # 0
                 THEN <<Arg("-ac", request.audio_channels)>> ELSE <<>>)
           \o (IF request.audio_volume # -1
                 THEN <<Arg("-af", request.audio_volume)>> ELSE <<>>)

\* an additional file output with the options given for it
FileOutArgs(file_out) ==
    (IF file_out.video_codec # None THEN <<Arg("-c:v", file_out.video_codec)>> ELSE <<>>)
    \o (IF file_out.video_bitrate # NoRate
          THEN <<Arg("-b:v", file_out.video_bitrate)>> ELSE <<>>)
    \o (IF file_out.audio_codec # None THEN <<Arg("-c:a", file_out.audio_codec)>> ELSE <<>>)
    \o (IF file_out.audio_bitrate # NoRate
          THEN <<Arg("-b:a", file_out.audio_bitrate)>> ELSE <<>>)
    \o (IF file_out.scale # None THEN <<Arg("-vf", file_out.scale)>> ELSE <<>>)
    \o <<Positional(file_out.output_file)>>

RECURSIVE AdditionalArgs(_)
AdditionalArgs(additional_outputs) ==
    IF additional_outputs = <<>> THEN <<>>
    ELSE FileOutArgs(Head(additional_outputs)) \o AdditionalArgs(Tail(additional_outputs))

\* -f mpegts before the first UDP destination only
RECURSIVE UdpOutputs(_, _)
UdpOutputs(udp_outputs, idx) ==
    IF udp_outputs = <<>> THEN <<>>
    ELSE (IF idx = 0 THEN <<Arg("-f", "mpegts")>> ELSE <<>>)
         \o <<Positional(Head(udp_outputs))>>
         \o UdpOutputs(Tail(udp_outputs), idx + 1)

RECURSIVE RtmpOutputs(_)
RtmpOutputs(rtmp_outputs) ==
    IF rtmp_outputs = <<>> THEN <<>>
    ELSE <<Arg("-f", "flv"), Positional(Head(rtmp_outputs))>>
         \o RtmpOutputs(Tail(rtmp_outputs))

\* the outputs of the standard command (lines 193-313)
OutputArgs(request) ==
    IF request.hls_output # NoHls
      THEN LET hls == request.hls_output IN
           HlsFormatArgs(hls)
           \o <<Arg("-hls_segment_filename", HlsPath(hls.output_dir, "", hls.segment_pattern))>>
           \o AdditionalArgs(request.additional_outputs)
           \o <<Positional(HlsPath(hls.output_dir, "", hls.playlist_name))>>
    ELSE IF request.udp_outputs # <<>>
      THEN UdpOutputs(request.udp_outputs, 0) \o AdditionalArgs(request.additional_outputs)
    ELSE IF request.rtmp_outputs # <<>>
      THEN RtmpOutputs(request.rtmp_outputs) \o AdditionalArgs(request.additional_outputs)
    ELSE (IF request.output_file # None THEN <<Positional(request.output_file)>> ELSE <<>>)
         \o AdditionalArgs(request.additional_outputs)

StandardCommand(request) ==
    <<Flag("ffmpeg")>>
    \o InputArgs(request)
    \o MapArgs(request.stream_maps)
    \o (IF request.input_format = "avfoundation" /\ request.hls_output # NoHls
          THEN AvfoundationArgs(request) ELSE <<>>)
    \o VideoArgs(request)
    \o AudioArgs(request)
    \o OutputArgs(request)

\* abr_renditions = request.abr_renditions or (hls_output and its renditions)
AbrRenditionsOf(request) ==
    IF request.abr_renditions # <<>> THEN request.abr_renditions
    ELSE IF request.hls_output # NoHls THEN request.hls_output.renditions
    ELSE <<>>

AbrEnabledOf(request) ==
    request.abr_enabled \/ (request.hls_output # NoHls /\ request.hls_output.abr_enabled)

build_ffmpeg_command(request) ==
    LET abr_renditions == AbrRenditionsOf(request) IN
    IF AbrEnabledOf(request) /\ abr_renditions # <<>> /\ request.hls_output # NoHls
      THEN build_abr_hls_command(request, abr_renditions)
    ELSE IF AbrEnabledOf(request) /\ abr_renditions # <<>> /\ request.udp_outputs # <<>>
      THEN build_abr_udp_command(request, abr_renditions)
    ELSE Built(StandardCommand(request))

\* ------------------------------------------------- requests and renditions
\* the optional fields of a rendition that a ladder can set
RenditionOptions ==
    {"video_framerate", "video_codec", "video_profile", "audio_bitrate",
     "audio_channels", "audio_sample_rate", "audio_volume", "max_bitrate",
     "buffer_size", "preset"}

\* a rendition with the optional fields of the set given, the others null
Rendition(name, video_bitrate, video_resolution, output_url, given) ==
    [name |-> name,
     video_bitrate |-> video_bitrate,
     video_resolution |-> video_resolution,
     video_framerate |-> IF "video_framerate" \in given THEN 30 ELSE 0,
     video_codec |-> IF "video_codec" \in given THEN "h265" ELSE None,
     video_profile |-> IF "video_profile" \in given THEN "main" ELSE None,
     audio_codec |-> None,
     audio_bitrate |-> IF "audio_bitrate" \in given THEN Rate(1280, "k") ELSE NoRate,
     audio_channels |-> IF "audio_channels" \in given THEN 2 ELSE 0,
     audio_sample_rate |-> IF "audio_sample_rate" \in given THEN 48000 ELSE 0,
     audio_volume |-> IF "audio_volume" \in given THEN 50 ELSE -1,
     max_bitrate |-> IF "max_bitrate" \in given THEN Rate(60, "M") ELSE NoRate,
     buffer_size |-> IF "buffer_size" \in given THEN Rate(120, "M") ELSE NoRate,
     preset |-> IF "preset" \in given THEN "fast" ELSE None,
     output_url |-> output_url]

\* the optional fields of a request that a configuration can set
RequestOptions ==
    {"hardware_accel", "loop_input", "input_format", "input_args", "stream_maps",
     "video_codec", "video_bitrate", "video_profile", "video_framerate",
     "encoding_preset", "video_resolution", "video_filters", "audio_codec",
     "audio_bitrate", "audio_channels", "audio_volume", "additional_outputs"}

\* an additional file output with the options of the set given
FileOutput(output_file, given) ==
    [output_file |-> output_file,
     video_codec |-> IF "video_codec" \in given THEN "libx264" ELSE None,
     video_bitrate |-> IF "video_bitrate" \in given THEN Rate(20, "M") ELSE NoRate,
     audio_codec |-> IF "audio_codec" \in given THEN "aac" ELSE None,
     audio_bitrate |-> IF "audio_bitrate" \in given THEN Rate(1280, "k") ELSE NoRate,
     scale |-> IF "video_resolution" \in given THEN "1280:720" ELSE None]

\* CreateJobRequest: the fields the builder reads.  given: the optional
\* fields set; output: where the primary output goes; the ladder, if any
CreateJobRequest(given, output, abr_enabled, abr_renditions) ==
    [input_file |-> "/input/video.mp4",
     hardware_accel |-> IF "hardware_accel" \in given THEN "nvenc" ELSE None,
     loop_input |-> "loop_input" \in given,
     input_format |-> IF "input_format" \in given THEN "avfoundation" ELSE None,
     input_args |-> IF "input_args" \in given THEN <<Arg("-thread_queue_size", 512)>> ELSE <<>>,
     stream_maps |-> IF "stream_maps" \in given
                       THEN <<[input_stream |-> "0:v:1", output_label |-> "v"],
                              [input_stream |-> "0:a:1", output_label |-> "a"]>>
                       ELSE <<>>,
     video_codec |-> IF "video_codec" \in given THEN "libx265" ELSE "libx264",
     video_bitrate |-> IF "video_bitrate" \in given THEN Rate(50, "M") ELSE NoRate,
     video_profile |-> IF "video_profile" \in given THEN "high" ELSE None,
     video_framerate |-> IF "video_framerate" \in given THEN 25 ELSE 0,
     encoding_preset |-> IF "encoding_preset" \in given THEN "fast" ELSE None,
     video_resolution |-> IF "video_resolution" \in given THEN "1280:720" ELSE None,
     video_filters |-> IF "video_filters" \in given THEN "yadif" ELSE None,
     audio_codec |-> IF "audio_codec" \in given THEN "aac" ELSE "copy",
     audio_bitrate |-> IF "audio_bitrate" \in given THEN Rate(1280, "k") ELSE NoRate,
     audio_channels |-> IF "audio_channels" \in given THEN 2 ELSE 0,
     audio_volume |-> IF "audio_volume" \in given THEN 80 ELSE -1,
     hls_output |-> IF output = "hls"
                      THEN HLSOutput("/output/hls/job", "mpegts", "live", FALSE, <<>>)
                      ELSE NoHls,
     udp_outputs |-> IF output = "udp" THEN <<Udp("239.0.0.1", 5000)>> ELSE <<>>,
     rtmp_outputs |-> IF output = "rtmp" THEN <<"rtmp://live/app/key">> ELSE <<>>,
     additional_outputs |-> IF "additional_outputs" \in given
                              THEN <<FileOutput("/output/copy.mp4", given)>> ELSE <<>>,
     output_file |-> IF output = "file" THEN "/output/output.mp4" ELSE None,
     abr_enabled |-> abr_enabled,
     abr_renditions |-> abr_renditions]

\* ------------------------------------------------------ calling a builder
\* the builder named in the call is applied to its arguments
CallBuilder ==
    /\ ~fnOut.returned
    /\ fnOut' = Return(CASE fnIn.fn = "build_abr_hls_command" ->
                                build_abr_hls_command(fnIn.request, fnIn.renditions)
                         [] fnIn.fn = "build_abr_udp_command" ->
                                build_abr_udp_command(fnIn.request, fnIn.renditions)
                         [] OTHER -> build_ffmpeg_command(fnIn.request))
    /\ UNCHANGED <<fnIn, smVars, sysVars, recVars, escVars>>

NextBuilder == CallBuilder

\* bound: the renditions of a ladder
MaxRenditions == 3

\* the renditions a ladder is made of: name, bitrate and resolution go
\* together as in the presets of models/rendition.py, the destination is
\* left out or given
LadderRendition(name, output_url) ==
    CASE name = "1080p" -> Rendition(name, Rate(50, "M"), "1920x1080", output_url, {})
      [] name = "720p" -> Rendition(name, Rate(30, "M"), "1280x720", output_url, {})
      [] name = "480p" -> Rendition(name, Rate(15, "M"), "854x480", output_url, {})
      [] OTHER -> Rendition(name, Rate(8000, "k"), "640x360", output_url, {})

LadderRenditions ==
    {LadderRendition(n, u) :
        n \in {"1080p", "720p", "480p", "360p"},
        u \in {NoUrl, Udp("239.0.0.1", 5000), Udp("239.0.0.1", 5001)}}

\* ladders of up to MaxRenditions renditions with pairwise distinct names
\* (hence resolutions), passed to the two ABR builders
Ladders ==
    UNION {{l \in [1..n -> LadderRenditions] :
               \A i, j \in 1..n : i # j => l[i].name # l[j].name} :
           n \in 1..MaxRenditions}

InitLadder ==
    /\ RestIdle
    /\ fnIn \in {[fn |-> f, request |-> CreateJobRequest({}, o, TRUE, ladder),
                  renditions |-> ladder] :
                    f \in {"build_abr_hls_command", "build_abr_udp_command"},
                    o \in {"hls", "udp"}, ladder \in Ladders}
    /\ fnOut = NoReturn

\* bound: the optional fields a configuration sets at once
MaxOptions == 2

\* configurations for build_ffmpeg_command: every primary output, with and
\* without a two-rendition ladder, up to MaxOptions optional fields set in
\* the request and in the renditions
AtMost(S, n) == {T \in SUBSET S : Cardinality(T) <= n}

FlagLadders ==
    {<<>>} \cup
    {<<Rendition("1080p", Rate(50, "M"), "1920x1080", NoUrl, given),
       Rendition("720p", Rate(30, "M"), "1280x720", NoUrl, given)>> :
        given \in AtMost(RenditionOptions, 1)}

InitFlags ==
    /\ RestIdle
    /\ fnIn \in {[fn |-> "build_ffmpeg_command",
                  request |-> CreateJobRequest(given, o, ladder # <<>>, ladder),
                  renditions |-> ladder] :
                    given \in AtMost(RequestOptions, MaxOptions),
                    o \in {"file", "hls", "udp", "rtmp"}, ladder \in FlagLadders}
    /\ fnOut = NoReturn

\* ------------------------------------------------- requests with stream maps
\* bound: the entries of a stream map list
MaxMaps == 2

\* StreamMap (models/encoding_settings.py): a specifier and the label of
\* the output stream it feeds
StreamMap(input_stream, output_label) ==
    [input_stream |-> input_stream, output_label |-> output_label]

StreamMapEntries ==
    {StreamMap("0:v:0", "v"), StreamMap("0:v:1", "v"), StreamMap("0:a:1", "a"),
     StreamMap("0:s:0", "s")}

StreamMapLists == UNION {[1..n -> StreamMapEntries] : n \in 0..MaxMaps}

\* every builder on every stream map list: the standard command with each
\* primary output, the two ABR builders with a ladder of two
InitMaps ==
    /\ RestIdle
    /\ fnIn \in
         {[fn |-> "build_ffmpeg_command",
           request |-> [CreateJobRequest({}, o, FALSE, <<>>) EXCEPT !.stream_maps = m],
           renditions |-> <<>>] :
              o \in {"file", "hls", "udp", "rtmp"}, m \in StreamMapLists}
         \cup
         {[fn |-> f,
           request |-> [CreateJobRequest({}, IF f = "build_abr_hls_command" THEN "hls" ELSE "udp",
                                         TRUE,
                                         <<LadderRendition("1080p", NoUrl),
                                           LadderRendition("720p", NoUrl)>>)
                           EXCEPT !.stream_maps = m],
           renditions |-> <<LadderRendition("1080p", NoUrl),
                            LadderRendition("720p", NoUrl)>>] :
              f \in {"build_abr_hls_command", "build_abr_udp_command"},
              m \in StreamMapLists}
    /\ fnOut = NoReturn

\* --------------------------------------------------- renditions by bitrate
\* bound: the largest number of a bitrate, in tenths
MaxTenths == 25

\* Rendition.validate_bitrate (models/rendition.py 55-79): a number and one
\* of the suffixes k K m M g G, or an integer without suffix
validate_bitrate(v) ==
    \/ v.unit \in {"k", "K", "m", "M", "g", "G"}
    \/ v.unit = "" /\ v.tenths % 10 = 0

AcceptedBitrates ==
    {v \in {Rate(t, u) : t \in 1..MaxTenths, u \in {"k", "K", "m", "M", "g", "G", "", "b"}} :
        validate_bitrate(v)}

\* both ABR builders on a ladder of one rendition with an accepted bitrate,
\* its buffer_size set or not
InitRates ==
    /\ RestIdle
    /\ fnIn \in
         {[fn |-> f,
           request |-> CreateJobRequest({}, IF f = "build_abr_hls_command" THEN "hls" ELSE "udp",
                                        TRUE,
                                        <<Rendition("720p", v, "1280x720", NoUrl, given)>>),
           renditions |-> <<Rendition("720p", v, "1280x720", NoUrl, given)>>] :
              f \in {"build_abr_hls_command", "build_abr_udp_command"},
              v \in AcceptedBitrates, given \in {{}, {"buffer_size"}}}
    /\ fnOut = NoReturn

\* --------------------------------------------- the video codec of a command
\* hw_codec_map of _build_command_from_unified_config (job_manager.py
\* 1083-1100): the entry for (hw_accel, video_codec), None without one
hw_codec_map(hw_accel, video_codec) ==
    LET family == CASE video_codec \in {"h264", "libx264"} -> "h264"
                    [] video_codec \in {"h265", "hevc", "libx265"} -> "hevc"
                    [] video_codec \in {"av1", "libaom-av1"} -> "av1"
                    [] OTHER -> None
    IN  IF family = None \/ (hw_accel = "videotoolbox" /\ family = "av1")
          THEN None
          ELSE family \o "_" \o hw_accel

\* the video codec options of the single-bitrate branch of
\* _build_command_from_unified_config (job_manager.py 1079-1113) for a
\* configuration with the keys hardwareAccel and videoCodec
UnifiedVideoArgs(config) ==
    LET hw_accel == config.hardwareAccel
        video_codec == config.videoCodec
        actual_codec ==
            IF hw_accel \notin {None, "", "none"}
               /\ hw_accel \in {"nvenc", "vaapi", "videotoolbox"}
              THEN IF hw_codec_map(hw_accel, video_codec) # None
                     THEN hw_codec_map(hw_accel, video_codec)
                     ELSE video_codec \o "_" \o hw_accel
              ELSE CASE video_codec = "h264" -> "libx264"
                     [] video_codec = "h265" -> "libx265"
                     [] video_codec = "vp9" -> "libvpx-vp9"
                     [] video_codec = "av1" -> "libaom-av1"
                     [] OTHER -> "libx264"
    IN  <<Arg("-c:v", actual_codec)>>
        \o (IF IsHevc(actual_codec) \/ video_codec \in {"h265", "libx265"}
              THEN <<Arg("-tag:v", "hvc1")>> ELSE <<>>)

\* the builders that choose a video codec
CodecBuilders ==
    {"build_ffmpeg_command", "build_variant_output", "build_abr_udp_command",
     "_build_command_from_unified_config"}

\* accelerators a job can name: the three of the tables, none, and one that
\* no table has
HwAccels == {"none", "nvenc", "vaapi", "videotoolbox", "qsv"}

\* codecs a builder can be given: build_ffmpeg_command takes the values of
\* the VideoCodec enum, a rendition and a unified configuration any name
CodecsOf(builder) ==
    IF builder = "build_ffmpeg_command"
      THEN {"libx264", "libx265", "libaom-av1"}
      ELSE {"h264", "libx264", "h265", "libx265", "hevc", "av1", "libaom-av1", "vp9"}

\* the command, or the part of it, that the builder of call makes for the
\* accelerator and the codec of call
CodecCommand(call) ==
    LET rendition == [Rendition("720p", Rate(30, "M"), "1280x720", NoUrl, {})
                         EXCEPT !.video_codec = call.video_codec]
    IN  CASE call.fn = "build_ffmpeg_command" ->
                 build_ffmpeg_command(
                     [CreateJobRequest({}, "file", FALSE, <<>>)
                         EXCEPT !.hardware_accel = call.hardware_accel,
                                !.video_codec = call.video_codec]).cmd
          [] call.fn = "build_variant_output" ->
                 build_variant_output(rendition, NoHls, call.hardware_accel, "0:a?")
          [] call.fn = "build_abr_udp_command" ->
                 build_abr_udp_command(
                     [CreateJobRequest({}, "udp", TRUE, <<rendition>>)
                         EXCEPT !.hardware_accel = call.hardware_accel],
                     <<rendition>>).cmd
          [] OTHER ->
                 UnifiedVideoArgs([hardwareAccel |-> call.hardware_accel,
                                   videoCodec |-> call.video_codec])

\* the value of the first -c:v option of a command
EmittedCodec(cmd) == SelectSeq(cmd, LAMBDA a : a.flag = "-c:v")[1].value

CallCodecBuilder ==
    /\ ~fnOut.returned
    /\ fnOut' = Return(EmittedCodec(CodecCommand(fnIn)))
    /\ UNCHANGED <<fnIn, smVars, sysVars, recVars, escVars>>

NextCodec == CallCodecBuilder

InitCodec ==
    /\ RestIdle
    /\ fnIn \in UNION {{[fn |-> b, hardware_accel |-> a, video_codec |-> c] :
                           a \in HwAccels, c \in CodecsOf(b)} : b \in CodecBuilders}
    /\ fnOut = NoReturn

(***************************************************************************)
(* Properties of the argument builder, checked under SpecLadder, SpecFlags *)
(***************************************************************************)
\* the filter graph of a command
FilterGraph(cmd) == SelectSeq(cmd, LAMBDA a : a.flag = "-filter_complex")[1].value
Stages(graph, op) == {i \in 1..Len(graph) : graph[i].op = op}

\* C18 as stated: for every ABR ladder of N renditions the two ABR builders
\* produce a filter graph with exactly one split stage with N outputs and
\* exactly N scale stages, and an argument list with N pairwise distinct
\* output destinations
C18_LadderShape ==
    (fnOut.returned /\ fnOut.value.raised = None) =>
        LET cmd == fnOut.value.cmd
            N == Len(fnIn.renditions)
            graph == FilterGraph(cmd)
            dests == Outputs(cmd)
        IN  /\ Cardinality(Stages(graph, "split")) = 1
            /\ \A i \in Stages(graph, "split") :
                   graph[i].n = N /\ Len(graph[i].outputs) = N
            /\ Cardinality(Stages(graph, "scale")) = N
            /\ Len(dests) = N
            /\ \A i, j \in 1..N : i # j => dests[i].value # dests[j].value

\* the renditions and the additional outputs of the request of the call
FlagRenditions == {fnIn.renditions[i] : i \in 1..Len(fnIn.renditions)}
FlagFileOuts ==
    {fnIn.request.additional_outputs[i] : i \in 1..Len(fnIn.request.additional_outputs)}

\* the request of the call has a field from which the flag can come
RequestSource(flag) ==
    LET request == fnIn.request IN
    CASE flag = "-preset" -> request.encoding_preset # None
      [] flag = "-maxrate" -> FALSE
      [] flag = "-profile:v" -> request.video_profile # None
      [] flag = "-r" -> request.video_framerate # 0
      [] flag = "-b:a" -> \/ request.audio_bitrate # NoRate
                          \/ \E f \in FlagFileOuts : f.audio_bitrate # NoRate
      [] flag = "-ac" -> request.audio_channels # 0
      [] flag = "-af" -> request.audio_volume # -1
      [] flag = "-vf" -> \/ request.video_resolution # None
                         \/ request.video_filters # None
                         \/ \E f \in FlagFileOuts : f.scale # None
      [] flag = "-tag:v" -> request.video_codec # "libx264"
      [] flag = "-map" -> request.stream_maps # <<>>
      [] OTHER -> TRUE

\* a rendition of the call has a field from which the flag can come
RenditionSource(flag) ==
    CASE flag = "-preset" -> \E r \in FlagRenditions : r.preset # None
      [] flag = "-maxrate" -> \E r \in FlagRenditions : r.max_bitrate # NoRate
      [] flag = "-profile:v" -> \E r \in FlagRenditions : r.video_profile # None
      [] flag = "-r" -> \E r \in FlagRenditions : r.video_framerate # 0
      [] flag = "-b:a" -> \E r \in FlagRenditions : r.audio_bitrate # NoRate
      [] flag = "-ac" -> \E r \in FlagRenditions : r.audio_channels # 0
      [] flag = "-af" -> \E r \in FlagRenditions : r.audio_volume # -1
      [] flag = "-vf" -> FALSE
      [] flag = "-tag:v" -> \E r \in FlagRenditions : r.video_codec # None
      [] flag = "-map" -> FALSE
      [] OTHER -> TRUE

AbrPath ==
    /\ AbrEnabledOf(fnIn.request)
    /\ AbrRenditionsOf(fnIn.request) # <<>>
    /\ fnIn.request.hls_output # NoHls \/ fnIn.request.udp_outputs # <<>>

PrimaryOutput(request) ==
    IF request.hls_output # NoHls
      THEN HlsPath(request.hls_output.output_dir, "", request.hls_output.playlist_name)
    ELSE IF request.rtmp_outputs # <<>>
      THEN request.rtmp_outputs[Len(request.rtmp_outputs)]
    ELSE request.output_file

\* the options an additional file output can override, and those it declares
OverrideFlags == {"-c:v", "-b:v", "-c:a", "-b:a", "-vf"}
Declared(file_out) ==
    {f \in OverrideFlags :
        \/ f = "-c:v" /\ file_out.video_codec # None
        \/ f = "-b:v" /\ file_out.video_bitrate # NoRate
        \/ f = "-c:a" /\ file_out.audio_codec # None
        \/ f = "-b:a" /\ file_out.audio_bitrate # NoRate
        \/ f = "-vf" /\ file_out.scale # None}

\* the flags of the override options that stand directly before position k
BlockBefore(cmd, k) ==
    {cmd[i].flag : i \in {j \in 1..(k - 1) :
                            \A m \in j..(k - 1) : cmd[m].flag \in OverrideFlags}}

\* C32: in a command built by build_ffmpeg_command with additional file
\* outputs the primary output (HLS playlist, output file or RTMP destination;
\* the UDP branch of lines 247-265 has the shape of the RTMP branch) is the
\* last argument, and every additional output stands before it with a block
\* of exactly the overrides it declares
C32_PrimaryOutputLast ==
    (/\ fnOut.returned
     /\ fnOut.value.raised = None
     /\ fnIn.request.udp_outputs = <<>>
     /\ fnIn.request.additional_outputs # <<>>) =>
        LET cmd == fnOut.value.cmd
            extra == fnIn.request.additional_outputs
        IN  /\ cmd[Len(cmd)].flag = "output"
            /\ cmd[Len(cmd)].value = PrimaryOutput(fnIn.request)
            /\ \A i \in 1..Len(extra) :
                   \E k \in 1..(Len(cmd) - 1) :
                       /\ cmd[k].flag = "output"
                       /\ cmd[k].value = extra[i].output_file
                       /\ BlockBefore(cmd, k) = Declared(extra[i])

(***************************************************************************)
(* The ladder validator of OutputConfiguration (models/output.py)          *)
(***************************************************************************)
\* the three fields of a rendition the validator reads; the resolution
\* string WIDTHxHEIGHT is kept as its two numbers
LadderEntry(name, video_bitrate, width, height) ==
    [name |-> name, video_bitrate |-> video_bitrate,
     video_resolution |-> [width |-> width, height |-> height]]

\* the limits on the length of a ladder (lines 84 and 88)
MinLadder == 2
MaxLadder == 6

\* int(width) * int(height)
resolution_to_pixels(resolution) == resolution.width * resolution.height

\* the number before the suffix times 1000 (k), 1000000 (m), 1000000000 (g),
\* truncated; the suffix is compared in lower case
bitrate_to_bps(bitrate) ==
    CASE bitrate.unit \in {"k", "K"} -> bitrate.tenths * 100
      [] bitrate.unit \in {"m", "M"} -> bitrate.tenths * 100000
      [] bitrate.unit \in {"g", "G"} -> bitrate.tenths * 100000000
      [] OTHER -> bitrate.tenths \div 10

\* sorted(v, key=..., reverse=True) for the keys of v: the sort is stable,
\* so an element goes after the elements with a larger key and after the
\* earlier elements with the same key
SortedDescending(v, keys) ==
    LET rank(i) == 1 + Cardinality({j \in 1..Len(v) :
                          \/ keys[j] > keys[i]
                          \/ keys[j] = keys[i] /\ j < i})
    IN  [p \in 1..Len(v) |-> v[CHOOSE i \in 1..Len(v) : rank(i) = p]]

\* validate_renditions: the list is returned (accepted) or a ValueError with
\* this message is raised
validate_renditions(v) ==
    LET resolutions == {v[i].video_resolution : i \in 1..Len(v)}
        sorted_by_resolution ==
            SortedDescending(v, [i \in 1..Len(v) |->
                                    resolution_to_pixels(v[i].video_resolution)])
        sorted_by_bitrate ==
            SortedDescending(v, [i \in 1..Len(v) |->
                                    bitrate_to_bps(v[i].video_bitrate)])
    IN  IF v = <<>> THEN "accepted"
        ELSE IF Len(v) < MinLadder THEN "ABR requires at least 2 renditions"
        ELSE IF Len(v) > MaxLadder THEN "Maximum 6 renditions supported"
        ELSE IF Len(v) # Cardinality(resolutions)
            THEN "Duplicate resolutions not allowed"
        ELSE IF sorted_by_resolution # sorted_by_bitrate
            THEN "Bitrate must decrease as resolution decreases"
        ELSE "accepted"

\* the validator is applied to the ladder of the call
CallValidateRenditions ==
    /\ ~fnOut.returned
    /\ fnIn.fn = "validate_renditions"
    /\ fnOut' = Return(validate_renditions(fnIn.v))
    /\ UNCHANGED <<fnIn, smVars, sysVars, recVars, escVars>>

NextValidate == CallValidateRenditions

\* the renditions of the validated ladders: three names, resolutions of
\* which two have the same number of pixels, bitrates of which two are the
\* same number of bits per second
ValidatedRenditions ==
    {LadderEntry(n, b, r[1], r[2]) :
        n \in {"1080p", "720p", "480p"},
        b \in {Rate(50, "M"), Rate(15, "M"), Rate(1500, "k"), Rate(8000, "k")},
        r \in {<<1920, 1080>>, <<854, 480>>, <<480, 854>>}}

InitValidate ==
    /\ RestIdle
    /\ fnIn \in {[fn |-> "validate_renditions", v |-> ladder] :
                    ladder \in UNION {[1..n -> ValidatedRenditions] :
                                         n \in 0..MaxRenditions}}
    /\ fnOut = NoReturn

(***************************************************************************)
(* Properties of the ladder validator, checked under SpecValidate          *)
(***************************************************************************)
\* what C20 asks of an accepted ladder
WellFormedLadder(v) ==
    /\ \A i, j \in 1..Len(v) : i # j => v[i].name # v[j].name
    /\ \A i, j \in 1..Len(v) :
          i # j => v[i].video_resolution # v[j].video_resolution
    /\ \A i, j \in 1..Len(v) :
          resolution_to_pixels(v[i].video_resolution)
              > resolution_to_pixels(v[j].video_resolution)
          => bitrate_to_bps(v[i].video_bitrate)
                 >= bitrate_to_bps(v[j].video_bitrate)

\* the ladder in another order
Reordered(v, p) == [i \in 1..Len(v) |-> v[p[i]]]

ExampleLadder ==
    <<LadderEntry("1080p", Rate(50, "M"), 1920, 1080),
      LadderEntry("480p", Rate(15, "M"), 854, 480)>>

ExampleReversed ==
    <<LadderEntry("1080p", Rate(8000, "k"), 1920, 1080),
      LadderEntry("480p", Rate(50, "M"), 854, 480)>>

\* C20 as stated: validate_renditions accepts a ladder of 2 to 6 renditions
\* if and only if its names are pairwise distinct, its resolutions are
\* pairwise distinct and of every two renditions the one with the higher
\* resolution has a higher-or-equal bitrate; the verdict is the same for
\* every order of the list; the ladder [1080p 5M 1920x1080, 480p 1.5M
\* 854x480] is accepted and the one with bitrates 800k and 5M is rejected
\* with the monotonicity error
C20_LadderVerdict ==
    (/\ fnOut.returned
     /\ Len(fnIn.v) \in MinLadder..MaxLadder) =>
        /\ fnOut.value = "accepted" <=> WellFormedLadder(fnIn.v)
        /\ \A p \in Permutations(1..Len(fnIn.v)) :
              (validate_renditions(Reordered(fnIn.v, p)) = "accepted")
                  <=> (fnOut.value = "accepted")
        /\ fnIn.v = ExampleLadder => fnOut.value = "accepted"
        /\ fnIn.v = ExampleReversed =>
              fnOut.value = "Bitrate must decrease as resolution decreases"

(***************************************************************************)
(* Properties of the codec choice, checked under SpecCodec                 *)
(***************************************************************************)
\* the codecs a builder's table has a row for: the names of H.264, H.265
\* and AV1, and in _build_command_from_unified_config also hevc
TableFamily(builder, codec) ==
    CASE codec \in {"h264", "libx264"} -> "h264"
      [] codec \in {"h265", "libx265"} -> "hevc"
      [] codec = "hevc" /\ builder = "_build_command_from_unified_config" -> "hevc"
      [] codec \in {"av1", "libaom-av1"} -> "av1"
      [] OTHER -> None

\* whether the table of the builder has an entry for (accelerator, codec)
HasTableEntry(builder, accelerator, codec) ==
    /\ accelerator \in {"nvenc", "vaapi", "videotoolbox"}
    /\ TableFamily(builder, codec) # None
    /\ ~(accelerator = "videotoolbox" /\ TableFamily(builder, codec) = "av1")

\* C30: with a hardware accelerator other than none every builder emits the
\* table entry for (accelerator, codec) when there is one and the requested
\* codec unchanged otherwise
C30_HardwareCodecByTable ==
    (fnOut.returned /\ fnIn.hardware_accel # "none") =>
        fnOut.value =
            IF HasTableEntry(fnIn.fn, fnIn.hardware_accel, fnIn.video_codec)
              THEN TableFamily(fnIn.fn, fnIn.video_codec) \o "_" \o fnIn.hardware_accel
              ELSE fnIn.video_codec

(***************************************************************************)
(* Properties of the builders on stream maps, checked under SpecMaps       *)
(***************************************************************************)
\* a stream specifier that selects audio
IsAudioSpecifier(s) == s \in {"0:a?", "0:a:1"}

\* the specifiers the -map options of a command select
Mapped(cmd) == {cmd[i].value : i \in {k \in 1..Len(cmd) : cmd[k].flag = "-map"}}

\* C31: when stream maps are supplied and none has the audio label, the
\* command disables audio (-an) and maps no audio stream, in the standard
\* path and in both ABR paths
C31_NoAudioMapDisablesAudio ==
    (/\ fnOut.returned
     /\ fnOut.value.raised = None
     /\ fnIn.request.stream_maps # <<>>
     /\ ~has_audio_map(fnIn.request.stream_maps)) =>
        /\ "-an" \in Flags(fnOut.value.cmd)
        /\ \A s \in Mapped(fnOut.value.cmd) : ~IsAudioSpecifier(s)

(***************************************************************************)
(* Properties of the buffer size, checked under SpecRates                  *)
(***************************************************************************)
\* the values of the -bufsize options of a command, in order
Bufsizes(cmd) == SelectSeq(cmd, LAMBDA a : a.flag = "-bufsize")

\* C33: in the ABR HLS and the ABR UDP command the -bufsize of a rendition
\* is its buffer_size when it has one and otherwise exactly twice its
\* video_bitrate with the same suffix, for every bitrate the rendition
\* validation accepts
C33_BufsizeTwiceBitrate ==
    fnOut.returned =>
        /\ fnOut.value.raised = None
        /\ Len(Bufsizes(fnOut.value.cmd)) = Len(fnIn.renditions)
        /\ \A i \in 1..Len(fnIn.renditions) :
               Bufsizes(fnOut.value.cmd)[i].value =
                   IF fnIn.renditions[i].buffer_size # NoRate
                     THEN fnIn.renditions[i].buffer_size
                     ELSE Rate(2 * fnIn.renditions[i].video_bitrate.tenths,
                               fnIn.renditions[i].video_bitrate.unit)

(***************************************************************************)
(* Properties of the persisted row, checked under SpecWriters              *)
(***************************************************************************)
\* C34: in every reachable persisted state a job whose status is not
\* RUNNING has no pid, whichever of transition, reset_job_status,
\* recover_running_jobs_on_restart and cleanup_orphaned_jobs wrote the row
C34_NotRunningHasNoPid ==
    smDb.status # RUNNING => smDb.pid = NoPid

\* cleanup_orphaned_jobs has marked a RUNNING row with a pid as ERROR
C34_Witness ==
    /\ smCall.outcome = "cleaned"
    /\ smCall.dbBefore.status = RUNNING
    /\ smCall.dbBefore.pid # NoPid
    /\ smDb.status = ERROR

(***************************************************************************)
(* Properties of one launch under fair scheduling, checked under SpecLive  *)
(***************************************************************************)
\* the process of launch l was launched and has exited
Exited(l) == proc[l] \in {"exit0", "exit1"}

\* the runtime handle of launch l is gone and the job's row, if it still
\* exists, is no longer RUNNING
CleanedUp(l) ==
    /\ active # l
    /\ dbExists => db.status \in {COMPLETED, ERROR, STOPPED}

\* C35: under fair scheduling every launched process that exits eventually
\* has its runtime handle removed and its job's persisted status moved out
\* of RUNNING, also when it exits before the caller has marked the job
\* RUNNING and when a descendant keeps the output pipes open
C35_ExitedIsCleanedUp ==
    Exited(1) ~> CleanedUp(1)

(***************************************************************************)
(* Properties of a restart after a stop, checked under SpecRelaunch        *)
(***************************************************************************)
\* the monitor task of launch l finishes in this step
MonitorFinishes(l) == pcM[l] # "done" /\ pcM'[l] = "done"

\* C38: a monitor task that finishes removes the runtime handle only of the
\* process it monitored: the handle registered for a newer process of the
\* same job, restarted after a stop before the old monitor finished, stays
C38_MonitorRemovesOwnHandle ==
    [][\A l \in Launches :
          (MonitorFinishes(l) /\ active # l) => active' = active]_vars

InitSM ==
    /\ SMInit
    /\ db = Fresh
    /\ cmdHasId = FALSE
    /\ SysIdle
    /\ RecIdle
    /\ FnIdle

Spec == Init /\ [][Next]_vars

SpecSM == InitSM /\ [][SMNext]_vars
SpecWriters == InitWriters /\ [][NextWriters]_vars

SpecRec == InitRec /\ [][NextRec]_vars
SpecServe == InitRec /\ [][NextServe]_vars

SpecRunning == InitRunning /\ [][NextRunning]_vars
SpecKill == InitKill /\ [][NextKill]_vars
SpecOrphan == InitOrphan /\ [][NextOrphan]_vars
SpecOwner == InitOwner /\ [][NextOwner]_vars
SpecRelaunch == Init /\ [][NextRelaunch]_vars
SpecStarts == Init /\ [][NextStarts]_vars
SpecStops == Init /\ [][NextStops]_vars
SpecStopsOne == Init /\ [][NextStopsOne]_vars
SpecRestart == InitRestart /\ [][NextRestart]_vars

\* the timer of asyncio.wait_for(process.wait(), timeout=2.0) fires
SpecStopsFair ==
    /\ Init
    /\ [][NextStopsOne]_vars
    /\ \A c \in Callers : WF_vars(StopEncodingWaited(c))

\* the event loop runs every task that is ready, and an awaited UPDATE or
\* DELETE ends; a process or a descendant may run forever
SpecLive ==
    /\ Init
    /\ [][NextLive]_vars
    /\ WF_vars(StartSteps(1))
    /\ WF_vars(MonitorSteps(1))

SpecLadder == InitLadder /\ [][NextBuilder]_vars
SpecFlags == InitFlags /\ [][NextBuilder]_vars
SpecCodec == InitCodec /\ [][NextCodec]_vars
SpecMaps == InitMaps /\ [][NextBuilder]_vars
SpecRates == InitRates /\ [][NextBuilder]_vars

SpecValidate == InitValidate /\ [][NextValidate]_vars

====
